---- MODULE Spec2Model ----
(***************************************************************************)
(* Bulk object-transfer engine of vm-deployment/scripts: the session pool, *)
(* the single-file transfer and the download command's verdict, as         *)
(* implemented by BunnyCDNClient (bunny_cdn.py) and HetznerS3Client        *)
(* (hetzner_s3.py).  The two clients share one structure; where they       *)
(* differ the model branches on `backend`.                                 *)
(*                                                                         *)
(* Sessions are numbered.  Whether a session is still alive is decided by  *)
(* the remote endpoint, not by the program: the model draws it at the      *)
(* moments the program can observe it (when a pooled session is handed     *)
(* out, when release probes it, when a transfer uses it).  A dead session  *)
(* never comes back to life.                                               *)
(***************************************************************************)
EXTENDS Integers, Sequences, FiniteSets

\* ------------------------------------------------------------------ bounds
NumCallers == 2
NumWorkers == 2
NumItems == 2
MaxCount == 20
MaxEntries == 2
MaxChunks == 2

\* ------------------------------------------------------- program constants
MaxPoolSize == 10
MaxRetries == 3
MaxKeys == 1000
RetryDelay == 1

Backends == {"bunny", "hetzner"}
Directions == {"download", "upload"}
Callers == 1..NumCallers
Workers == 1..NumWorkers
Items == 1..NumItems
NoSession == 0
NoItem == 0

VARIABLES
    backend,     \* which client class is running
    pool,        \* _connection_pool / _session_pool: idle sessions, a Python list
    lockedCall,  \* the remote call made inside the last `with self._pool_lock`
    pc,          \* each worker's position
    held,        \* the session in the worker's local variable ftp / client
    heldAlive,   \* whether that session is alive at the endpoint
    fromPool,    \* whether it was popped from the pool (else newly created)
    fate,        \* what became of the session the worker acquired last
    lastReturn,  \* which branch the worker's last release took
    lastError,   \* the exception `e` the worker's except branch caught last
    errored,     \* the sessions on which an attempt raised, each with the
                 \* way the function took the error
    direction,   \* the command: download or upload
    maxWorkers,  \* args.max_workers, the size of the ThreadPoolExecutor
    phase,       \* the main thread's position in the command
    nItems,      \* number of work items the lister / walker produced
    nextItem,    \* the executor's queue: the next item a free worker takes
    item,        \* the item each worker is transferring
    attempt,     \* the loop variable `attempt` of download_file / upload_file
    waited,      \* per thread, the time slept so far in the retry loop
    tries,       \* per item, the number of attempts made so far
    result,      \* per item, the future: pending, or done with the function's
                 \* return value (true, false) or with an exception (raised)
    fileOk,      \* per item, whether the local file exists with size > 0
    outcome,     \* per item, how the collector counted it
    successful,  \* the collector's counters
    failed,
    corrupted,
    progress,    \* pbar.n: the number of pbar.update(1) calls made
    verdict,     \* the branch of the command's final classification
    exitCode,    \* the command's return value
    extensions,  \* the lister's argument: the allowed extensions, {} for none
    pathExists,  \* whether the remote path (directory, prefix) exists
    padding,     \* number of matching files that sort before `remote`
    remote,      \* the remote entries after those, in the order listed
    listAnswer,  \* how the listing call ended
    listing,     \* what list_files / list_objects returned
    hasCallback, \* download_file: whether a progress_callback was passed
    remoteLength,\* the number of chunks the remote file streams
    sizeOutcome, \* how the size query (ftp.size / head_object) ended
    file_size,   \* the local `file_size` of download_file
    downloaded,  \* the local `downloaded`: chunks written so far
    callbacks,   \* number of progress_callback calls made
    streamed,    \* how retrbinary / download_fileobj ended
    dlResult,    \* what the attempt of download_file came to
    sigint,      \* whether a KeyboardInterrupt was raised in the main thread
    remote_dir,  \* per thread, the components of upload_file's remote_dir
    dirIndex,    \* per thread, how many of them the loop has gone through
    current_dir, \* per thread, the path built so far (`current_dir`)
    remoteDirs,  \* the directories that exist on the FTP server
    mkdReplies   \* per thread, the kinds of reply its ftp.mkd calls got

workerVars == <<pc, held, heldAlive, fromPool, fate, lastReturn, lastError>>
runVars == <<direction, phase, nItems, nextItem, item, attempt, waited,
             tries, result, fileOk, outcome>>
countVars == <<successful, failed, corrupted, progress>>
endVars == <<verdict, exitCode>>
dirVars == <<remote_dir, dirIndex, current_dir, remoteDirs, mkdReplies>>
listVars == <<extensions, pathExists, padding, remote, listAnswer, listing>>
dlVars == <<hasCallback, remoteLength, sizeOutcome, file_size, downloaded,
           callbacks, streamed, dlResult>>
vars == <<backend, maxWorkers, pool, lockedCall, workerVars, runVars, countVars,
          endVars, listVars, dlVars, sigint, dirVars, errored>>

\* ------------------------------------------------------------ pool helpers

PoolTopOldest(p) == p[1]

\* list.pop() returns the last element ...
PoolTop(p) == p[Len(p)]

PopConnectionKeep(p) == p

\* ... and removes it from the list.
PopConnection(p) == SubSeq(p, 1, Len(p) - 1)

PoolHasRoomOffByOne(p) == Len(p) <= MaxPoolSize

\* len(pool) < 10
PoolHasRoom(p) == Len(p) < MaxPoolSize

\* What release does with a session it does not keep: BunnyCDNClient calls
\* ftp.quit(); HetznerS3Client only logs (or does nothing) and lets go of it.
ReleaseDiscards(b) == IF b = "bunny" THEN "closed" ELSE "dropped"

\* The remote call made inside the `with self._pool_lock` block of an
\* operation that finds the pool as p.  Acquire only pops.  Release appends,
\* or, finding the pool full, BunnyCDNClient calls ftp.quit() before leaving
\* the block.  BunnyCDNClient.cleanup calls ftp.quit() on every pooled
\* session inside the block; HetznerS3Client.cleanup only clears the list.
CallUnderLock(b, op, p) ==
    IF b = "bunny" /\ op = "release" /\ ~PoolHasRoom(p) THEN "quit"
    ELSE IF b = "bunny" /\ op = "cleanup" /\ p # <<>> THEN "quit"
    ELSE "none"

\* Sessions some thread or the pool still refers to.
InUse == {held[w] : w \in DOMAIN held} \cup {pool[k] : k \in 1..Len(pool)}

\* Enough numbers for a full pool and one session per thread.
SessionIds == 1..(MaxPoolSize + Cardinality(DOMAIN held) + 1)

\* A new session object: a number that no live reference carries and no
\* session let go after an error carried (the least one).
FreshId ==
    LET free == SessionIds \ (InUse \cup {e[1] : e \in errored})
    IN  CHOOSE s \in free : \A t \in free : s <= t

\* --------------------------------------------------------- pool operations

\* _get_connection / _get_client, the part under the lock: pop an idle
\* session without probing it, or fall through to creation.
get_connection(w) ==
    /\ pc[w] = "acquire"
    /\ IF pool # <<>>
       THEN \E a \in BOOLEAN :
              /\ held' = [held EXCEPT ![w] = PoolTop(pool)]
              /\ pool' = PopConnection(pool)
              /\ heldAlive' = [heldAlive EXCEPT ![w] = a]
              /\ fromPool' = [fromPool EXCEPT ![w] = TRUE]
              /\ fate' = [fate EXCEPT ![w] = "held"]
              /\ pc' = [pc EXCEPT ![w] = "holding"]
       ELSE /\ pc' = [pc EXCEPT ![w] = "create"]
            /\ fate' = [fate EXCEPT ![w] = "none"]
            /\ UNCHANGED <<pool, held, heldAlive, fromPool>>
    /\ lastReturn' = [lastReturn EXCEPT ![w] = "none"]
    /\ lockedCall' = CallUnderLock(backend, "acquire", pool)
    /\ UNCHANGED <<errored, backend, maxWorkers, sigint, dirVars, listVars,
                   dlVars, lastError, runVars, countVars, endVars>>

\* _create_connection / _create_client, outside the lock: a new authenticated
\* session, or ConnectionError.
create_connection(w) ==
    /\ pc[w] = "create"
    /\ \/ /\ held' = [held EXCEPT ![w] = FreshId]
          /\ heldAlive' = [heldAlive EXCEPT ![w] = TRUE]
          /\ fromPool' = [fromPool EXCEPT ![w] = FALSE]
          /\ fate' = [fate EXCEPT ![w] = "held"]
          /\ pc' = [pc EXCEPT ![w] = "holding"]
       \/ /\ pc' = [pc EXCEPT ![w] = "connerr"]
          /\ UNCHANGED <<held, heldAlive, fromPool, fate>>
    /\ UNCHANGED <<errored, backend, maxWorkers, sigint, dirVars, listVars,
                   dlVars, lockedCall, pool, lastReturn, lastError, runVars,
                   countVars, endVars>>

return_connection_probe_raises(w) ==
    /\ pc[w] = "release"
    /\ \E ok \in (IF heldAlive[w] THEN BOOLEAN ELSE {FALSE}) :
         IF ok
         THEN /\ pc' = [pc EXCEPT ![w] = "release_locked"]
              /\ UNCHANGED <<held, heldAlive, fate, lastReturn>>
         ELSE /\ fate' = [fate EXCEPT ![w] = "unreleased"]
              /\ held' = [held EXCEPT ![w] = NoSession]
              /\ heldAlive' = [heldAlive EXCEPT ![w] = FALSE]
              /\ lastReturn' = [lastReturn EXCEPT ![w] = "dead"]
              /\ pc' = [pc EXCEPT ![w] = "release_raised"]
    /\ UNCHANGED <<errored, backend, maxWorkers, sigint, dirVars, listVars,
                   dlVars, lockedCall, pool, fromPool, lastError, runVars,
                   countVars, endVars>>

\* _return_connection / _return_client, the probe (ftp.pwd() /
\* client.list_buckets()), made before the lock is taken.  A failed probe
\* lands in the bare except branch, which lets nothing out: BunnyCDNClient
\* calls ftp.quit() there inside a try / except: pass of its own, so a
\* failing close changes nothing; HetznerS3Client only logs.
return_connection_probe(w) ==
    /\ pc[w] = "release"
    /\ \E ok \in (IF heldAlive[w] THEN BOOLEAN ELSE {FALSE}) :
         IF ok
         THEN /\ pc' = [pc EXCEPT ![w] = "release_locked"]
              /\ UNCHANGED <<held, heldAlive, fate, lastReturn>>
         ELSE /\ fate' = [fate EXCEPT ![w] = ReleaseDiscards(backend)]
              /\ held' = [held EXCEPT ![w] = NoSession]
              /\ heldAlive' = [heldAlive EXCEPT ![w] = FALSE]
              /\ lastReturn' = [lastReturn EXCEPT ![w] = "dead"]
              /\ pc' = [pc EXCEPT ![w] = "released"]
    /\ UNCHANGED <<errored, backend, maxWorkers, sigint, dirVars, listVars,
                   dlVars, lockedCall, pool, fromPool, lastError, runVars,
                   countVars, endVars>>

\* _return_connection / _return_client, the part under the lock.
return_connection_locked(w) ==
    /\ pc[w] = "release_locked"
    /\ IF PoolHasRoom(pool)
       THEN /\ pool' = Append(pool, held[w])
            /\ fate' = [fate EXCEPT ![w] = "pooled"]
            /\ lastReturn' = [lastReturn EXCEPT ![w] = "pooled"]
       ELSE /\ fate' = [fate EXCEPT ![w] = ReleaseDiscards(backend)]
            /\ lastReturn' = [lastReturn EXCEPT ![w] = "full"]
            /\ UNCHANGED pool
    /\ held' = [held EXCEPT ![w] = NoSession]
    /\ heldAlive' = [heldAlive EXCEPT ![w] = FALSE]
    /\ pc' = [pc EXCEPT ![w] = "released"]
    /\ lockedCall' = CallUnderLock(backend, "release", pool)
    /\ UNCHANGED <<errored, backend, maxWorkers, sigint, dirVars, listVars,
                   dlVars, fromPool, lastError, runVars, countVars, endVars>>

\* ----------------------------------------------- the pool under any caller

\* The caller is done with the session and calls release (the success path of
\* download_file, upload_file, list_files).
caller_releases(w) ==
    /\ pc[w] = "holding"
    /\ pc' = [pc EXCEPT ![w] = "release"]
    /\ UNCHANGED <<errored, backend, maxWorkers, sigint, dirVars, listVars,
                   dlVars, lockedCall, pool, held, heldAlive, fromPool, fate,
                   lastReturn, lastError, runVars, countVars, endVars>>

\* The caller's except branch: it returns without calling release.
caller_abandons(w) ==
    /\ pc[w] = "holding"
    /\ fate' = [fate EXCEPT ![w] = "unreleased"]
    /\ held' = [held EXCEPT ![w] = NoSession]
    /\ heldAlive' = [heldAlive EXCEPT ![w] = FALSE]
    /\ pc' = [pc EXCEPT ![w] = "released"]
    /\ UNCHANGED <<errored, backend, maxWorkers, sigint, dirVars, listVars,
                   dlVars, lockedCall, pool, fromPool, lastReturn, lastError,
                   runVars, countVars, endVars>>

\* The call is over (release returned, or acquire raised ConnectionError) and
\* the thread calls acquire again.
caller_acquires(w) ==
    /\ pc[w] \in {"released", "connerr"}
    /\ pc' = [pc EXCEPT ![w] = "acquire"]
    /\ UNCHANGED <<errored, backend, maxWorkers, sigint, dirVars, listVars,
                   dlVars, lockedCall, pool, held, heldAlive, fromPool, fate,
                   lastReturn, lastError, runVars, countVars, endVars>>

\* No upload is creating directories.
DirIdle ==
    /\ remote_dir = <<>>
    /\ dirIndex = <<>>
    /\ current_dir = <<>>
    /\ remoteDirs = {}
    /\ mkdReplies = <<>>

\* No command is running: the variables of a bulk run at rest.
RunIdle ==
    /\ sigint = FALSE
    /\ lockedCall = "none"
    /\ direction = "download"
    /\ maxWorkers = 0
    /\ phase = "none"
    /\ nItems = 0
    /\ nextItem = 1
    /\ item = <<>>
    /\ attempt = <<>>
    /\ waited = <<>>
    /\ tries = <<>>
    /\ result = <<>>
    /\ fileOk = <<>>
    /\ outcome = <<>>
    /\ successful = 0
    /\ failed = 0
    /\ corrupted = 0
    /\ progress = 0
    /\ verdict = "none"
    /\ exitCode = -1

\* No listing is being made: the lister's variables at rest.
ListIdle ==
    /\ extensions = {}
    /\ pathExists = TRUE
    /\ padding = 0
    /\ remote = <<>>
    /\ listAnswer = "none"
    /\ listing = [padding |-> 0, names |-> <<>>]

\* No single download is being followed: download_file's locals at rest.
DownloadIdle ==
    /\ hasCallback = FALSE
    /\ remoteLength = 0
    /\ sizeOutcome = "none"
    /\ file_size = 0
    /\ downloaded = 0
    /\ callbacks = 0
    /\ streamed = "none"
    /\ dlResult = "none"

\* The pool of a client in use, seen when all but NumWorkers of its threads
\* have finished: k idle sessions, k <= 10 (released by threads that held one
\* each), and every remaining thread either about to call acquire or holding
\* a session it acquired earlier.
PoolInit ==
    /\ errored = {}
    /\ backend \in Backends
    /\ \E k \in 0..MaxPoolSize : pool = [i \in 1..k |-> i]
    /\ pc \in [Callers -> {"acquire", "holding"}]
    /\ held = [w \in Callers |->
                 IF pc[w] = "holding" THEN MaxPoolSize + w ELSE NoSession]
    /\ heldAlive = [w \in Callers |-> pc[w] = "holding"]
    /\ fromPool = [w \in Callers |-> FALSE]
    /\ fate = [w \in Callers |-> IF pc[w] = "holding" THEN "held" ELSE "none"]
    /\ lastReturn = [w \in Callers |-> "none"]
    /\ lastError = [w \in Callers |-> "none"]
    /\ RunIdle
    /\ DirIdle
    /\ ListIdle
    /\ DownloadIdle

PoolNext ==
    \E w \in Callers :
        \/ get_connection(w)
        \/ create_connection(w)
        \/ caller_releases(w)
        \/ caller_abandons(w)
        \/ return_connection_probe(w)
        \/ return_connection_locked(w)
        \/ caller_acquires(w)

PoolSpec == PoolInit /\ [][PoolNext]_vars

\* ------------------------------------- sessions on which an attempt raised

\* How many failed attempts of one client the model follows.
MaxErrored == 2

\* The sessions on which an attempt raised and the function took the error
\* the given way.
ErroredSessions(how) == {e[1] : e \in {x \in errored : x[2] = how}}

attempt_raises_then_releases(w) ==
    /\ pc[w] = "holding"
    /\ Cardinality(errored) < MaxErrored
    /\ errored' = errored \cup {<<held[w], "raised">>}
    /\ pc' = [pc EXCEPT ![w] = "release"]
    /\ UNCHANGED <<backend, maxWorkers, sigint, dirVars, listVars, dlVars,
                   lockedCall, pool, held, heldAlive, fromPool, fate,
                   lastReturn, lastError, runVars, countVars, endVars>>

\* A remote call of download_file, upload_file, list_files or list_objects
\* raises with the session held: the function's `except Exception` clause
\* logs and returns (or sleeps and starts the next attempt) and the local
\* ftp / client is let go; no release is called.
attempt_raises(w) ==
    /\ pc[w] = "holding"
    /\ Cardinality(errored) < MaxErrored
    /\ errored' = errored \cup {<<held[w], "raised">>}
    /\ fate' = [fate EXCEPT ![w] = "unreleased"]
    /\ held' = [held EXCEPT ![w] = NoSession]
    /\ heldAlive' = [heldAlive EXCEPT ![w] = FALSE]
    /\ pc' = [pc EXCEPT ![w] = "released"]
    /\ UNCHANGED <<backend, maxWorkers, sigint, dirVars, listVars, dlVars,
                   lockedCall, pool, fromPool, lastReturn, lastError, runVars,
                   countVars, endVars>>

\* BunnyCDNClient.list_files: ftp.cwd(remote_path) raises ftplib.error_perm.
\* The inner except clause prints "Remote directory not found", calls
\* _return_connection(ftp) and returns [].  The server answered, so the
\* session is alive.
lister_finds_no_path(w) ==
    /\ backend = "bunny"
    /\ pc[w] = "holding"
    /\ heldAlive[w]
    /\ Cardinality(errored) < MaxErrored
    /\ errored' = errored \cup {<<held[w], "notfound">>}
    /\ pc' = [pc EXCEPT ![w] = "release"]
    /\ UNCHANGED <<backend, maxWorkers, sigint, dirVars, listVars, dlVars,
                   lockedCall, pool, held, heldAlive, fromPool, fate,
                   lastReturn, lastError, runVars, countVars, endVars>>

\* A client just constructed, used by NumCallers threads that list and
\* transfer.
ReuseInit ==
    /\ errored = {}
    /\ backend \in Backends
    /\ pool = <<>>
    /\ pc = [w \in Callers |-> "acquire"]
    /\ held = [w \in Callers |-> NoSession]
    /\ heldAlive = [w \in Callers |-> FALSE]
    /\ fromPool = [w \in Callers |-> FALSE]
    /\ fate = [w \in Callers |-> "none"]
    /\ lastReturn = [w \in Callers |-> "none"]
    /\ lastError = [w \in Callers |-> "none"]
    /\ RunIdle
    /\ DirIdle
    /\ ListIdle
    /\ DownloadIdle

ReuseNext ==
    \E w \in Callers :
        \/ get_connection(w)
        \/ create_connection(w)
        \/ caller_releases(w)
        \/ attempt_raises(w)
        \/ lister_finds_no_path(w)
        \/ return_connection_probe(w)
        \/ return_connection_locked(w)
        \/ caller_acquires(w)

ReuseSpec == ReuseInit /\ [][ReuseNext]_vars

\* ------------------------------------------------------- the bulk command

\* _return_connection / _return_client called by the main thread while no
\* worker runs: the pool after releasing s into p, given the probe's answer.
ReleasedInto(p, s, probeOk) ==
    IF probeOk /\ PoolHasRoom(p) THEN Append(p, s) ELSE p

test_connection_failure_goes_on ==
    /\ phase = "test"
    /\ \/ /\ phase' = "list"
          /\ exitCode' = 1
          /\ UNCHANGED <<pool, lockedCall, verdict>>
       \/ /\ \E probeOk \in BOOLEAN :
               /\ pool' = IF backend = "hetzner"
                          THEN ReleasedInto(pool, FreshId, probeOk)
                          ELSE pool
               /\ lockedCall' = IF backend = "hetzner" /\ probeOk
                                 THEN CallUnderLock(backend, "release", pool)
                                 ELSE lockedCall
          /\ phase' = "list"
          /\ UNCHANGED <<verdict, exitCode>>
    /\ UNCHANGED <<errored, backend, maxWorkers, sigint, dirVars, listVars,
                   dlVars, workerVars, direction, nItems, nextItem, item,
                   attempt, waited, tries, result, fileOk, outcome,
                   countVars>>

\* test_connection at the start of the command.  BunnyCDNClient creates a
\* connection, lists the root and quits; HetznerS3Client creates a client,
\* checks the bucket and hands the client to _return_client.  Any failure
\* makes the command return 1.
test_connection ==
    /\ phase = "test"
    /\ \/ /\ phase' = "done"
          /\ exitCode' = 1
          /\ UNCHANGED <<pool, lockedCall, verdict>>
       \/ /\ \E probeOk \in BOOLEAN :
               /\ pool' = IF backend = "hetzner"
                          THEN ReleasedInto(pool, FreshId, probeOk)
                          ELSE pool
               /\ lockedCall' = IF backend = "hetzner" /\ probeOk
                                 THEN CallUnderLock(backend, "release", pool)
                                 ELSE lockedCall
          /\ phase' = "list"
          /\ UNCHANGED <<verdict, exitCode>>
    /\ UNCHANGED <<errored, backend, maxWorkers, sigint, dirVars, listVars,
                   dlVars, workerVars, direction, nItems, nextItem, item,
                   attempt, waited, tries, result, fileOk, outcome,
                   countVars>>

\* The command starts the run with n work items: every future pending, every
\* executor thread free.
RunStarts(n) ==
    /\ nItems' = n
    /\ phase' = IF n = 0 THEN "cleanup" ELSE "run"
    /\ UNCHANGED <<nextItem, item, attempt, waited, tries, result, fileOk,
                   outcome>>

\* download_directory up to the submission of the futures: list_files /
\* list_objects with a session of the pool, then one future per file; an
\* empty list returns (0, 0, 0) at once.
list_files ==
    /\ phase = "list"
    /\ direction = "download"
    /\ \/ \* no idle session and creating one fails: the listing is empty
          /\ pool = <<>>
          /\ RunStarts(0)
          /\ lockedCall' = CallUnderLock(backend, "acquire", pool)
          /\ UNCHANGED pool
       \/ \* the listing raises: empty, and the session is not released
          /\ pool' = IF pool = <<>> THEN pool ELSE PopConnection(pool)
          /\ lockedCall' = CallUnderLock(backend, "acquire", pool)
          /\ RunStarts(0)
       \/ \* the listing answers (n = 0 also when the path does not exist)
          \E n \in 0..NumItems, probeOk \in BOOLEAN :
            /\ pool' = IF pool = <<>>
                       THEN ReleasedInto(pool, FreshId, probeOk)
                       ELSE ReleasedInto(PopConnection(pool), PoolTop(pool),
                                         probeOk)
            /\ lockedCall' =
                 IF probeOk
                 THEN CallUnderLock(backend, "release",
                        IF pool = <<>> THEN pool ELSE PopConnection(pool))
                 ELSE CallUnderLock(backend, "acquire", pool)
            /\ RunStarts(n)
    /\ UNCHANGED <<errored, backend, maxWorkers, sigint, dirVars, listVars,
                   dlVars, workerVars, direction, countVars, endVars>>

\* upload_directory up to the submission of the futures: walk the local
\* tree; a missing or empty directory returns (0, 0) at once.
walk_local_tree ==
    /\ phase = "list"
    /\ direction = "upload"
    /\ \E n \in 0..NumItems : RunStarts(n)
    /\ UNCHANGED <<errored, backend, maxWorkers, sigint, dirVars, listVars,
                   dlVars, lockedCall, pool, workerVars, direction, countVars,
                   endVars>>

\* ------------------------------------------------------------ the lister

\* File names are sequences of characters; these are the characters that
\* matter to the lister: a letter, the dot, a letter in both cases, another
\* letter and the separator.
Lower(c) == IF c = "J" THEN "j" ELSE c

\* str.lower()
LowerName(s) == [k \in 1..Len(s) |-> Lower(s[k])]

\* str.endswith(suffix)
EndsWith(s, suffix) ==
    /\ Len(suffix) <= Len(s)
    /\ SubSeq(s, Len(s) - Len(suffix) + 1, Len(s)) = suffix

\* '.' in item
HasDot(s) == \E k \in 1..Len(s) : s[k] = "."

\* any(item.lower().endswith(ext.lower()) for ext in extensions)
MatchesExtensions(name, exts) ==
    \E ext \in exts : EndsWith(LowerName(name), LowerName(ext))

\* Whether the loop body of the lister appends the entry.  BunnyCDNClient
\* takes an entry for a file when its name contains a dot; HetznerS3Client
\* skips keys that end with the separator.  Then, `if extensions:` (false
\* for None and for an empty list), the name must match one of them.
ListKeeps(b, entry, exts) ==
    /\ IF b = "bunny" THEN HasDot(entry.name)
                      ELSE ~EndsWith(entry.name, <<"/">>)
    /\ exts # {} => MatchesExtensions(entry.name, exts)

Min(a, b) == IF a <= b THEN a ELSE b

\* How many entries the listing call lets through before it stops:
\* HetznerS3Client paginates with PaginationConfig={'MaxItems': max_keys},
\* max_keys = 1000, and no caller passes another value; ftp.nlst() returns
\* the whole directory (the model's directories stay below 2 * MaxKeys).
PageLimit(b) == IF b = "hetzner" THEN MaxKeys ELSE MaxKeys + MaxKeys

\* The value list_files / list_objects returns for a directory of n matching
\* files followed by the entries r: how many of the n it holds, and the names
\* it took from r.
ListResult(b, n, r, exts) ==
    LET seen == Min(n, PageLimit(b))
        rest == SubSeq(r, 1, Min(Len(r), PageLimit(b) - seen))
        Keeps(entry) == ListKeeps(b, entry, exts)
        kept == SelectSeq(rest, Keeps)
    IN  [padding |-> seen, names |-> [k \in 1..Len(kept) |-> kept[k].name]]

EmptyListing == [padding |-> 0, names |-> <<>>]

\* The main thread inside list_files / list_objects.
MainThread == 1

list_reads_abandons_on_missing_path ==
    /\ pc[MainThread] = "holding"
    /\ listAnswer = "none"
    /\ \/ /\ heldAlive[MainThread]
          /\ pathExists
          /\ listAnswer' = "entries"
          /\ listing' = ListResult(backend, padding, remote, extensions)
          /\ pc' = [pc EXCEPT ![MainThread] = "release"]
          /\ UNCHANGED <<held, heldAlive, fate>>
       \/ /\ listAnswer' = IF heldAlive[MainThread] /\ ~pathExists
                           THEN "notfound" ELSE "raised"
          /\ listing' = EmptyListing
          /\ fate' = [fate EXCEPT ![MainThread] = "unreleased"]
          /\ held' = [held EXCEPT ![MainThread] = NoSession]
          /\ heldAlive' = [heldAlive EXCEPT ![MainThread] = FALSE]
          /\ pc' = [pc EXCEPT ![MainThread] = "released"]
    /\ UNCHANGED <<errored, backend, maxWorkers, sigint, dirVars, dlVars,
                   lockedCall, pool, fromPool, lastReturn, lastError, runVars,
                   countVars, endVars, extensions, pathExists, padding,
                   remote>>

\* With the session held: ftp.cwd and ftp.nlst, or the paginator's pages.
\* The remote answers with the entries; or it reports that the path does not
\* exist (ftplib.error_perm on cwd: the function releases the session and
\* returns []; for S3 a prefix without keys gives a page without Contents);
\* or the call raises, and the outer except branch returns [] without
\* releasing the session.
list_reads ==
    /\ pc[MainThread] = "holding"
    /\ listAnswer = "none"
    /\ \/ /\ heldAlive[MainThread]
          /\ pathExists
          /\ listAnswer' = "entries"
          /\ listing' = ListResult(backend, padding, remote, extensions)
          /\ pc' = [pc EXCEPT ![MainThread] = "release"]
          /\ UNCHANGED <<held, heldAlive, fate>>
       \/ /\ heldAlive[MainThread]
          /\ ~pathExists
          /\ listAnswer' = "notfound"
          /\ listing' = EmptyListing
          /\ pc' = [pc EXCEPT ![MainThread] = "release"]
          /\ UNCHANGED <<held, heldAlive, fate>>
       \/ /\ listAnswer' = "raised"
          /\ listing' = EmptyListing
          /\ fate' = [fate EXCEPT ![MainThread] = "unreleased"]
          /\ held' = [held EXCEPT ![MainThread] = NoSession]
          /\ heldAlive' = [heldAlive EXCEPT ![MainThread] = FALSE]
          /\ pc' = [pc EXCEPT ![MainThread] = "released"]
    /\ UNCHANGED <<errored, backend, maxWorkers, sigint, dirVars, dlVars,
                   lockedCall, pool, fromPool, lastReturn, lastError, runVars,
                   countVars, endVars, extensions, pathExists, padding,
                   remote>>

\* _get_connection raised ConnectionError: the outer except branch returns [].
list_catches_connection_error ==
    /\ pc[MainThread] = "connerr"
    /\ listAnswer = "none"
    /\ listAnswer' = "raised"
    /\ listing' = EmptyListing
    /\ pc' = [pc EXCEPT ![MainThread] = "released"]
    /\ UNCHANGED <<errored, backend, maxWorkers, sigint, dirVars, dlVars,
                   lockedCall, pool, held, heldAlive, fromPool, fate,
                   lastReturn, lastError, runVars, countVars, endVars,
                   extensions, pathExists, padding, remote>>

\* download_directory after the lister returned nothing: `if not files`
\* returns the zero counts with no future submitted.
download_directory_finds_nothing ==
    /\ phase = "none"
    /\ pc[MainThread] = "released"
    /\ listAnswer # "none"
    /\ listing = EmptyListing
    /\ RunStarts(0)
    /\ UNCHANGED <<errored, backend, maxWorkers, sigint, dirVars, listVars,
                   dlVars, lockedCall, pool, workerVars, direction, countVars,
                   endVars>>

\* The names a remote directory can hold.
Names ==
    { <<"a", ".", "j">>, <<"a", ".", "J">>, <<"a", ".", "t">>,
      <<"a", "j">>, <<"a">>, <<"a", "/">>, <<"a", ".", "j", "/">> }

\* What the remote lists.  An FTP directory holds files and directories,
\* whose names hold no separator; an S3 prefix holds keys, the directory
\* markers being the keys that end with the separator.
Entries(b) ==
    IF b = "bunny"
    THEN {[name |-> n, dir |-> d] :
            n \in {m \in Names : \A k \in 1..Len(m) : m[k] # "/"},
            d \in BOOLEAN}
    ELSE {[name |-> n, dir |-> EndsWith(n, <<"/">>)] : n \in Names}

\* The extension lists a caller passes: none, or one extension in either case.
Filters == { {}, {<<".", "j">>}, {<<".", "J">>} }

\* Directory sizes around the page limit.
Paddings == {0, MaxKeys - 1, MaxKeys}

\* list_files / list_objects called by the main thread of a client whose
\* pool is empty or holds one session, for a remote path that is missing, or
\* that holds `padding` matching files followed by up to MaxEntries entries.
ListInit ==
    /\ errored = {}
    /\ backend \in Backends
    /\ pool \in {<<>>, <<1>>}
    /\ lockedCall = "none"
    /\ pc = [w \in {MainThread} |-> "acquire"]
    /\ held = [w \in {MainThread} |-> NoSession]
    /\ heldAlive = [w \in {MainThread} |-> FALSE]
    /\ fromPool = [w \in {MainThread} |-> FALSE]
    /\ fate = [w \in {MainThread} |-> "none"]
    /\ lastReturn = [w \in {MainThread} |-> "none"]
    /\ lastError = [w \in {MainThread} |-> "none"]
    /\ RunIdle
    /\ DirIdle
    /\ extensions \in Filters
    /\ pathExists \in BOOLEAN
    /\ padding \in (IF pathExists THEN Paddings ELSE {0})
    /\ \E len \in 0..(IF pathExists THEN MaxEntries ELSE 0) :
         remote \in [1..len -> Entries(backend)]
    /\ listAnswer = "none"
    /\ listing = EmptyListing
    /\ DownloadIdle

ListNext ==
    \/ get_connection(MainThread)
    \/ create_connection(MainThread)
    \/ list_reads
    \/ list_catches_connection_error
    \/ download_directory_finds_nothing
    \/ return_connection_probe(MainThread)
    \/ return_connection_locked(MainThread)

ListSpec == ListInit /\ [][ListNext]_vars

\* ------------------------------------------------- one download attempt

\* The except clause around the size query: BunnyCDNClient has a bare
\* `except: pass`, HetznerS3Client has `except ClientError`, which lets every
\* other exception (a lost connection, a timeout) through to the except
\* branch of the attempt.
SizeQueryCatches(b, error) ==
    b = "bunny" \/ error = "client_error"

\* download_file with the session held: ftp.size(remote_path) /
\* client.head_object(...)['ContentLength'].  The remote answers with the
\* length; or the call fails with an error reply of the protocol
\* (error_perm, ClientError: unsupported, not found); or it raises anything
\* else, which is all a dead session can do.
size_query ==
    /\ pc[MainThread] = "holding"
    /\ sizeOutcome = "none"
    /\ \E answer \in (IF heldAlive[MainThread]
                     THEN {"answered", "client_error", "other_error"}
                     ELSE {"other_error"}) :
         /\ sizeOutcome' = answer
         /\ file_size' = IF answer = "answered" THEN remoteLength ELSE 0
         /\ IF answer = "answered" \/ SizeQueryCatches(backend, answer)
            THEN UNCHANGED <<pc, held, heldAlive, fate, dlResult>>
            ELSE /\ dlResult' = "false"
                 /\ fate' = [fate EXCEPT ![MainThread] = "unreleased"]
                 /\ held' = [held EXCEPT ![MainThread] = NoSession]
                 /\ heldAlive' = [heldAlive EXCEPT ![MainThread] = FALSE]
                 /\ pc' = [pc EXCEPT ![MainThread] = "released"]
    /\ UNCHANGED <<errored, backend, maxWorkers, sigint, dirVars, listVars,
                   lockedCall, pool, fromPool, lastReturn, lastError, runVars,
                   countVars, endVars, hasCallback, remoteLength, downloaded,
                   callbacks, streamed>>

\* retrbinary / download_fileobj delivers one chunk: it is written to the
\* local file and progress_tracker adds it to `downloaded`, calling
\* progress_callback when one was given and file_size > 0.
stream_chunk ==
    /\ pc[MainThread] = "holding"
    /\ sizeOutcome # "none"
    /\ heldAlive[MainThread]
    /\ downloaded < remoteLength
    /\ downloaded' = downloaded + 1
    /\ callbacks' = IF hasCallback /\ file_size > 0 THEN callbacks + 1
                                                   ELSE callbacks
    /\ UNCHANGED <<errored, backend, maxWorkers, sigint, dirVars, listVars,
                   lockedCall, pool, workerVars, runVars, countVars, endVars,
                   hasCallback, remoteLength, sizeOutcome, file_size,
                   streamed, dlResult>>

\* The stream is over: the whole file has come, and the function goes on to
\* _return_connection and `return True`; or the call raised, and the except
\* branch of the attempt leaves the session unreleased.
stream_ends ==
    /\ pc[MainThread] = "holding"
    /\ sizeOutcome # "none"
    /\ \/ /\ heldAlive[MainThread]
          /\ downloaded = remoteLength
          /\ streamed' = "completed"
          /\ dlResult' = "true"
          /\ pc' = [pc EXCEPT ![MainThread] = "release"]
          /\ UNCHANGED <<held, heldAlive, fate>>
       \/ /\ streamed' = "raised"
          /\ dlResult' = "false"
          /\ fate' = [fate EXCEPT ![MainThread] = "unreleased"]
          /\ held' = [held EXCEPT ![MainThread] = NoSession]
          /\ heldAlive' = [heldAlive EXCEPT ![MainThread] = FALSE]
          /\ pc' = [pc EXCEPT ![MainThread] = "released"]
    /\ UNCHANGED <<errored, backend, maxWorkers, sigint, dirVars, listVars,
                   lockedCall, pool, fromPool, lastReturn, lastError, runVars,
                   countVars, endVars, hasCallback, remoteLength, sizeOutcome,
                   file_size, downloaded, callbacks>>

\* _get_connection raised ConnectionError: the attempt fails before the
\* size query.
download_catches_connection_error ==
    /\ pc[MainThread] = "connerr"
    /\ dlResult = "none"
    /\ dlResult' = "false"
    /\ pc' = [pc EXCEPT ![MainThread] = "released"]
    /\ UNCHANGED <<errored, backend, maxWorkers, sigint, dirVars, listVars,
                   lockedCall, pool, held, heldAlive, fromPool, fate,
                   lastReturn, lastError, runVars, countVars, endVars,
                   hasCallback, remoteLength, sizeOutcome, file_size,
                   downloaded, callbacks, streamed>>

\* One attempt of download_file, called on its own thread by a client whose
\* pool is empty or holds one session, for a remote file of up to MaxChunks
\* chunks, with or without a progress callback.
DownloadInit ==
    /\ errored = {}
    /\ backend \in Backends
    /\ pool \in {<<>>, <<1>>}
    /\ lockedCall = "none"
    /\ pc = [w \in {MainThread} |-> "acquire"]
    /\ held = [w \in {MainThread} |-> NoSession]
    /\ heldAlive = [w \in {MainThread} |-> FALSE]
    /\ fromPool = [w \in {MainThread} |-> FALSE]
    /\ fate = [w \in {MainThread} |-> "none"]
    /\ lastReturn = [w \in {MainThread} |-> "none"]
    /\ lastError = [w \in {MainThread} |-> "none"]
    /\ RunIdle
    /\ DirIdle
    /\ ListIdle
    /\ hasCallback \in BOOLEAN
    /\ remoteLength \in 0..MaxChunks
    /\ sizeOutcome = "none"
    /\ file_size = 0
    /\ downloaded = 0
    /\ callbacks = 0
    /\ streamed = "none"
    /\ dlResult = "none"

DownloadNext ==
    \/ get_connection(MainThread)
    \/ create_connection(MainThread)
    \/ download_catches_connection_error
    \/ size_query
    \/ stream_chunk
    \/ stream_ends
    \/ return_connection_probe(MainThread)
    \/ return_connection_locked(MainThread)

DownloadSpec == DownloadInit /\ [][DownloadNext]_vars

\* ------------------------------------------- remote directory creation

\* os.path.dirname(remote_path).split('/'): the directories an upload can
\* name, as lists of components; a leading separator gives an empty first
\* component, and a file at the root gives no directory at all.
DirPaths ==
    { <<>>, <<"a">>, <<"a", "b">>, <<"", "a">>, <<"c">> }

\* The paths _create_remote_directory can build from them.
BuiltPaths == { <<"a">>, <<"a", "b">>, <<"c">> }

\* The directory that must exist for mkd(path) to succeed.
ParentExists(dirs, path) ==
    Len(path) = 1 \/ SubSeq(path, 1, Len(path) - 1) \in dirs

MkdAlreadyExistsFails(reply) == reply \in {"raised", "exists"}

\* Whether a reply to ftp.mkd leaves the loop by an exception: the loop
\* catches ftplib.error_perm (the directory exists, or creation is refused)
\* and nothing else.
MkdRaises(reply) == reply = "raised"

\* One iteration of the loop of _create_remote_directory on the thread's
\* session.  An empty component is skipped.  Otherwise current_dir grows by
\* the component and ftp.mkd(current_dir) is sent: the server creates the
\* directory when it is missing and its parent exists, or rejects the
\* command (it exists already; the parent is missing; creation is refused),
\* or the call raises something else (a temporary error, a lost
\* connection), which leaves upload_file by its except branch with the
\* session unreleased.
create_remote_directory(w) ==
    /\ pc[w] = "mkdir"
    /\ dirIndex[w] < Len(remote_dir[w])
    /\ LET dir_name == remote_dir[w][dirIndex[w] + 1]
           path == Append(current_dir[w], dir_name)
       IN  IF dir_name = ""
           THEN /\ dirIndex' = [dirIndex EXCEPT ![w] = @ + 1]
                /\ UNCHANGED <<current_dir, remoteDirs, mkdReplies, pc, held,
                               heldAlive, fate>>
           ELSE \E reply \in
                    {"raised"} \cup
                    (IF path \in remoteDirs THEN {"exists"}
                     ELSE IF ParentExists(remoteDirs, path)
                          THEN {"created", "refused"}
                          ELSE {"refused"}) :
                  /\ current_dir' = [current_dir EXCEPT ![w] = path]
                  /\ dirIndex' = [dirIndex EXCEPT ![w] = @ + 1]
                  /\ mkdReplies' = [mkdReplies EXCEPT ![w] = @ \cup {reply}]
                  /\ remoteDirs' = IF reply = "created"
                                   THEN remoteDirs \cup {path}
                                   ELSE remoteDirs
                  /\ IF MkdRaises(reply)
                     THEN /\ pc' = [pc EXCEPT ![w] = "failed"]
                          /\ fate' = [fate EXCEPT ![w] = "unreleased"]
                          /\ held' = [held EXCEPT ![w] = NoSession]
                          /\ heldAlive' = [heldAlive EXCEPT ![w] = FALSE]
                     ELSE UNCHANGED <<pc, held, heldAlive, fate>>
    /\ UNCHANGED <<errored, backend, maxWorkers, sigint, listVars, dlVars,
                   lockedCall, pool, fromPool, lastReturn, lastError, runVars,
                   countVars, endVars, remote_dir>>

\* The loop is over (or remote_dir was empty and the function was not
\* called): upload_file goes on to stat the file and to storbinary.
upload_reaches_stream(w) ==
    /\ pc[w] = "mkdir"
    /\ dirIndex[w] = Len(remote_dir[w])
    /\ pc' = [pc EXCEPT ![w] = "stream"]
    /\ UNCHANGED <<errored, backend, maxWorkers, sigint, dirVars, listVars,
                   dlVars, lockedCall, pool, held, heldAlive, fromPool, fate,
                   lastReturn, lastError, runVars, countVars, endVars>>

\* BunnyCDNClient.upload_file on every executor thread at once, each with its
\* own live session and its own file, at the point where the remote
\* directory is created; the server holds any of the directories already.
DirInit ==
    /\ errored = {}
    /\ backend = "bunny"
    /\ pool = <<>>
    /\ pc = [w \in Workers |-> "mkdir"]
    /\ held = [w \in Workers |-> MaxPoolSize + w]
    /\ heldAlive = [w \in Workers |-> TRUE]
    /\ fromPool = [w \in Workers |-> FALSE]
    /\ fate = [w \in Workers |-> "held"]
    /\ lastReturn = [w \in Workers |-> "none"]
    /\ lastError = [w \in Workers |-> "none"]
    /\ RunIdle
    /\ ListIdle
    /\ DownloadIdle
    /\ remote_dir \in [Workers -> DirPaths]
    /\ dirIndex = [w \in Workers |-> 0]
    /\ current_dir = [w \in Workers |-> <<>>]
    /\ remoteDirs \in {dirs \in SUBSET BuiltPaths :
                         \A path \in dirs : ParentExists(dirs, path)}
    /\ mkdReplies = [w \in Workers |-> {}]

DirNext ==
    \E w \in Workers :
        \/ create_remote_directory(w)
        \/ upload_reaches_stream(w)

DirSpec == DirInit /\ [][DirNext]_vars

\* ------------------------------------------------------ executor threads

\* The executor threads.  A thread's steps are those of download_file /
\* upload_file at which it touches what other threads touch (the queue, the
\* pool under its lock, the future's result) or waits for the remote end;
\* what it does in between is folded into the step before.

\* The executor's threads run from the submission of the futures until the
\* executor's shutdown(wait=True) has joined them: while the main thread
\* collects, and, after a KeyboardInterrupt has thrown it out of the loop,
\* while it waits in ThreadPoolExecutor.__exit__.
ExecutorRunning == phase \in {"run", "interrupted"}

RetryAfterFailureOnceMore(b, a) == b = "hetzner" /\ a < MaxRetries

\* An attempt ended in the except branch of download_file / upload_file:
\* HetznerS3Client sleeps and loops while attempt < max_retries - 1,
\* whatever the exception; BunnyCDNClient has no loop and returns False.
RetryAfterFailure(b, a) == b = "hetzner" /\ a < MaxRetries - 1

BackoffDelayFlat(a) == RetryDelay

\* time.sleep(retry_delay * (2 ** attempt)), `attempt` counting from 0.
BackoffDelay(a) == RetryDelay * 2 ^ a

ThreadExistsUnbounded(w, mw) == TRUE

\* ThreadPoolExecutor(max_workers=mw) starts at most mw threads: the model's
\* threads beyond that number do not exist.
ThreadExists(w, mw) == w <= mw

\* How upload_file can end before its first attempt: it returns False when
\* the local file does not exist; in HetznerS3Client the existence test and
\* local_path.stat() stand outside the try block, so an OSError there (the
\* file removed in between, a directory that cannot be searched) leaves the
\* function as an exception, which the future stores.
UploadFileEarlyExit(b, d) ==
    IF d # "upload" THEN {}
    ELSE IF b = "hetzner" THEN {"false", "raised"}
    ELSE {"false"}

worker_takes_item_checks_late(w) ==
    /\ ExecutorRunning
    /\ ThreadExists(w, maxWorkers)
    /\ pc[w] = "idle"
    /\ \A v \in Workers : pc[v] = "idle" => w <= v
    /\ nextItem <= nItems
    /\ nextItem' = nextItem + 1
    /\ attempt' = [attempt EXCEPT ![w] = 0]
    /\ waited' = [waited EXCEPT ![w] = 0]
    /\ fate' = [fate EXCEPT ![w] = "none"]
    /\ lastReturn' = [lastReturn EXCEPT ![w] = "none"]
    /\ lastError' = [lastError EXCEPT ![w] = "none"]
    /\ \/ /\ item' = [item EXCEPT ![w] = nextItem]
          /\ pc' = [pc EXCEPT ![w] = "acquire"]
          /\ UNCHANGED <<result, pool>>
       \/ /\ \E r \in UploadFileEarlyExit(backend, direction) :
               result' = [result EXCEPT ![nextItem] = r]
          /\ pool' = IF pool = <<>> THEN pool ELSE PopConnection(pool)
          /\ UNCHANGED <<item, pc>>
    /\ UNCHANGED <<errored, backend, maxWorkers, sigint, dirVars, listVars,
                   dlVars, lockedCall, held, heldAlive, fromPool, direction,
                   phase, nItems, tries, fileOk, outcome, countVars, endVars>>

\* A free executor thread takes the next queued future and enters
\* download_file / upload_file; upload_file returns False at once when the
\* local file does not exist.  Which of several free threads takes it cannot
\* be observed: the model gives it to the lowest-numbered one.
worker_takes_item(w) ==
    /\ ExecutorRunning
    /\ ThreadExists(w, maxWorkers)
    /\ pc[w] = "idle"
    /\ \A v \in Workers : pc[v] = "idle" => w <= v
    /\ nextItem <= nItems
    /\ nextItem' = nextItem + 1
    /\ attempt' = [attempt EXCEPT ![w] = 0]
    /\ waited' = [waited EXCEPT ![w] = 0]
    /\ fate' = [fate EXCEPT ![w] = "none"]
    /\ lastReturn' = [lastReturn EXCEPT ![w] = "none"]
    /\ lastError' = [lastError EXCEPT ![w] = "none"]
    /\ \/ /\ item' = [item EXCEPT ![w] = nextItem]
          /\ pc' = [pc EXCEPT ![w] = "acquire"]
          /\ UNCHANGED result
       \/ /\ \E r \in UploadFileEarlyExit(backend, direction) :
               result' = [result EXCEPT ![nextItem] = r]
          /\ UNCHANGED <<item, pc>>
    /\ UNCHANGED <<errored, backend, maxWorkers, sigint, dirVars, listVars,
                   dlVars, lockedCall, pool, held, heldAlive, fromPool,
                   direction, phase, nItems, tries, fileOk, outcome,
                   countVars, endVars>>

\* The except branch of download_file / upload_file: the session, if one was
\* acquired, is neither released nor closed; then sleep and retry, or
\* return False.
AttemptFails(w, kind) ==
    /\ tries' = [tries EXCEPT ![item[w]] = @ + 1]
    /\ lastError' = [lastError EXCEPT ![w] = kind]
    /\ fate' = [fate EXCEPT ![w] =
                  IF held[w] # NoSession THEN "unreleased" ELSE @]
    /\ held' = [held EXCEPT ![w] = NoSession]
    /\ heldAlive' = [heldAlive EXCEPT ![w] = FALSE]
    /\ fromPool' = [fromPool EXCEPT ![w] = FALSE]
    /\ IF RetryAfterFailure(backend, attempt[w])
       THEN /\ pc' = [pc EXCEPT ![w] = "backoff"]
            /\ waited' = [waited EXCEPT ![w] = @ + BackoffDelay(attempt[w])]
            /\ UNCHANGED <<result, item>>
       ELSE /\ pc' = [pc EXCEPT ![w] = "idle"]
            /\ result' = [result EXCEPT ![item[w]] = "false"]
            /\ item' = [item EXCEPT ![w] = NoItem]
            /\ UNCHANGED waited
    /\ UNCHANGED <<errored, backend, maxWorkers, sigint, dirVars, listVars,
                   dlVars, lockedCall, pool, lastReturn, direction, phase,
                   nItems, nextItem, attempt, fileOk, outcome, countVars,
                   endVars>>

\* download_file / upload_file has returned True: the future is done and the
\* thread is free.
ReturnsTrue(w) ==
    /\ result' = [result EXCEPT ![item[w]] = "true"]
    /\ item' = [item EXCEPT ![w] = NoItem]
    /\ held' = [held EXCEPT ![w] = NoSession]
    /\ heldAlive' = [heldAlive EXCEPT ![w] = FALSE]
    /\ fromPool' = [fromPool EXCEPT ![w] = FALSE]
    /\ pc' = [pc EXCEPT ![w] = "idle"]

worker_gets_connection_always_creates(w) ==
    /\ ExecutorRunning
    /\ pc[w] \in {"acquire", "backoff"}
    /\ attempt' = [attempt EXCEPT ![w] = IF pc[w] = "backoff" THEN @ + 1 ELSE @]
    /\ UNCHANGED waited
    /\ IF FALSE
       THEN \E a \in BOOLEAN :
              /\ held' = [held EXCEPT ![w] = PoolTop(pool)]
              /\ pool' = PopConnection(pool)
              /\ heldAlive' = [heldAlive EXCEPT ![w] = a]
              /\ fromPool' = [fromPool EXCEPT ![w] = TRUE]
              /\ fate' = [fate EXCEPT ![w] = "held"]
              /\ pc' = [pc EXCEPT ![w] = "holding"]
       ELSE /\ pc' = [pc EXCEPT ![w] = "create"]
            /\ fate' = [fate EXCEPT ![w] = "none"]
            /\ UNCHANGED <<pool, held, heldAlive, fromPool>>
    /\ lastReturn' = [lastReturn EXCEPT ![w] = "none"]
    /\ lastError' = [lastError EXCEPT ![w] = "none"]
    /\ lockedCall' = CallUnderLock(backend, "acquire", pool)
    /\ UNCHANGED <<errored, backend, maxWorkers, sigint, dirVars, listVars,
                   dlVars, direction, phase, nItems, nextItem, item, tries,
                   result, fileOk, outcome, countVars, endVars>>

\* An attempt starts (the first, or the next one once time.sleep(retry_delay
\* * 2 ** attempt) is over and the except clause, with its `e`, is left):
\* _get_connection under the lock.
worker_gets_connection(w) ==
    /\ ExecutorRunning
    /\ pc[w] \in {"acquire", "backoff"}
    /\ attempt' = [attempt EXCEPT ![w] = IF pc[w] = "backoff" THEN @ + 1 ELSE @]
    /\ UNCHANGED waited
    /\ IF pool # <<>>
       THEN \E a \in BOOLEAN :
              /\ held' = [held EXCEPT ![w] = PoolTop(pool)]
              /\ pool' = PopConnection(pool)
              /\ heldAlive' = [heldAlive EXCEPT ![w] = a]
              /\ fromPool' = [fromPool EXCEPT ![w] = TRUE]
              /\ fate' = [fate EXCEPT ![w] = "held"]
              /\ pc' = [pc EXCEPT ![w] = "holding"]
       ELSE /\ pc' = [pc EXCEPT ![w] = "create"]
            /\ fate' = [fate EXCEPT ![w] = "none"]
            /\ UNCHANGED <<pool, held, heldAlive, fromPool>>
    /\ lastReturn' = [lastReturn EXCEPT ![w] = "none"]
    /\ lastError' = [lastError EXCEPT ![w] = "none"]
    /\ lockedCall' = CallUnderLock(backend, "acquire", pool)
    /\ UNCHANGED <<errored, backend, maxWorkers, sigint, dirVars, listVars,
                   dlVars, direction, phase, nItems, nextItem, item, tries,
                   result, fileOk, outcome, countVars, endVars>>

\* _create_connection outside the lock: a new session, or ConnectionError,
\* which the try block of download_file / upload_file catches.
worker_creates_connection(w) ==
    /\ ExecutorRunning
    /\ pc[w] = "create"
    /\ \/ /\ held' = [held EXCEPT ![w] = FreshId]
          /\ heldAlive' = [heldAlive EXCEPT ![w] = TRUE]
          /\ fromPool' = [fromPool EXCEPT ![w] = FALSE]
          /\ fate' = [fate EXCEPT ![w] = "held"]
          /\ pc' = [pc EXCEPT ![w] = "holding"]
          /\ UNCHANGED <<errored, backend, maxWorkers, sigint, dirVars,
                         listVars, dlVars, lockedCall, pool, lastReturn,
                         lastError, runVars, countVars, endVars>>
       \/ AttemptFails(w, "connection")

\* The transfer proper, with the session held: size query and retrbinary /
\* download_fileobj, or directory creation and storbinary / upload_fileobj.
\* It raises, or it completes (a download may leave an empty file) and the
\* thread calls _return_connection, whose probe either fails (the session is
\* discarded and the function returns True) or passes (the lock is next).
\* On a dead session the transfer can only raise.
transfer_file(w) ==
    /\ ExecutorRunning
    /\ pc[w] = "holding"
    /\ \/ /\ heldAlive[w]
          /\ \E nonEmpty \in (IF direction = "download" THEN BOOLEAN
                                                        ELSE {TRUE}) :
               fileOk' = [fileOk EXCEPT ![item[w]] = nonEmpty]
          /\ tries' = [tries EXCEPT ![item[w]] = @ + 1]
          /\ \/ /\ pc' = [pc EXCEPT ![w] = "release_locked"]
                /\ UNCHANGED <<held, heldAlive, fromPool, fate, lastReturn,
                               result, item>>
             \/ /\ fate' = [fate EXCEPT ![w] = ReleaseDiscards(backend)]
                /\ lastReturn' = [lastReturn EXCEPT ![w] = "dead"]
                /\ ReturnsTrue(w)
          /\ UNCHANGED <<errored, backend, maxWorkers, sigint, dirVars,
                         listVars, dlVars, lockedCall, pool, lastError,
                         direction, phase, nItems, nextItem, attempt, waited,
                         outcome, countVars, endVars>>
       \/ AttemptFails(w, "transient")
       \/ /\ heldAlive[w]
          /\ AttemptFails(w, "permanent")

\* _return_connection under the lock, after which download_file /
\* upload_file returns True.
worker_returns_connection(w) ==
    /\ ExecutorRunning
    /\ pc[w] = "release_locked"
    /\ IF PoolHasRoom(pool)
       THEN /\ pool' = Append(pool, held[w])
            /\ fate' = [fate EXCEPT ![w] = "pooled"]
            /\ lastReturn' = [lastReturn EXCEPT ![w] = "pooled"]
       ELSE /\ fate' = [fate EXCEPT ![w] = ReleaseDiscards(backend)]
            /\ lastReturn' = [lastReturn EXCEPT ![w] = "full"]
            /\ UNCHANGED pool
    /\ ReturnsTrue(w)
    /\ lockedCall' = CallUnderLock(backend, "release", pool)
    /\ UNCHANGED <<errored, backend, maxWorkers, sigint, dirVars, listVars,
                   dlVars, lastError, direction, phase, nItems, nextItem,
                   attempt, waited, tries, fileOk, outcome, countVars,
                   endVars>>

FoldOutcomeIgnoresSize(dir, res, nonEmpty) ==
    IF res # "true" THEN "failed" ELSE "success"

FoldOutcomeSizeCheckInverted(dir, res, nonEmpty) ==
    IF res # "true" THEN "failed"
    ELSE IF dir = "download" /\ nonEmpty THEN "corrupted"
    ELSE "success"

\* The body of the as_completed loop: which counter a finished future bumps.
\* Only download_directory looks at the local file.  future.result() raising
\* lands in the loop's except branch, which bumps failed.
FoldOutcome(dir, res, nonEmpty) ==
    IF res # "true" THEN "failed"
    ELSE IF dir = "download" /\ ~nonEmpty THEN "corrupted"
    ELSE "success"

collect_after_failure_fails(i) ==
    /\ phase = "run"
    /\ i <= nItems
    /\ result[i] # "pending"
    /\ outcome[i] = "none"
    /\ LET o == IF failed > 0 THEN "failed"
                ELSE FoldOutcome(direction, result[i], fileOk[i]) IN
       /\ outcome' = [outcome EXCEPT ![i] = o]
       /\ successful' = IF o = "success" THEN successful + 1 ELSE successful
       /\ failed' = IF o = "failed" THEN failed + 1 ELSE failed
       /\ corrupted' = IF o = "corrupted" THEN corrupted + 1 ELSE corrupted
       /\ progress' = progress + 1
    /\ UNCHANGED <<errored, backend, maxWorkers, sigint, dirVars, listVars,
                   dlVars, lockedCall, pool, workerVars, direction, phase,
                   nItems, nextItem, item, attempt, waited, tries, result,
                   fileOk, endVars>>

collect_aborts_on_raise(i) ==
    /\ phase = "run"
    /\ i <= nItems
    /\ result[i] # "pending"
    /\ outcome[i] = "none"
    /\ IF result[i] = "raised"
       THEN /\ phase' = "done"
            /\ exitCode' = 1
            /\ UNCHANGED <<outcome, countVars, verdict>>
       ELSE LET o == FoldOutcome(direction, result[i], fileOk[i]) IN
            /\ outcome' = [outcome EXCEPT ![i] = o]
            /\ successful' = IF o = "success" THEN successful + 1
                                              ELSE successful
            /\ failed' = IF o = "failed" THEN failed + 1 ELSE failed
            /\ corrupted' = IF o = "corrupted" THEN corrupted + 1
                                                ELSE corrupted
            /\ progress' = progress + 1
            /\ UNCHANGED <<phase, endVars>>
    /\ UNCHANGED <<errored, backend, maxWorkers, sigint, dirVars, listVars,
                   dlVars, lockedCall, pool, workerVars, direction, nItems,
                   nextItem, item, attempt, waited, tries, result, fileOk>>

collect_resubmits_corrupted(i) ==
    /\ phase = "run"
    /\ i <= nItems
    /\ result[i] # "pending"
    /\ outcome[i] = "none"
    /\ LET o == FoldOutcome(direction, result[i], fileOk[i]) IN
       /\ outcome' = [outcome EXCEPT ![i] =
                         IF o = "corrupted" THEN "none" ELSE o]
       /\ result' = [result EXCEPT ![i] =
                        IF o = "corrupted" THEN "pending" ELSE @]
       /\ nextItem' = IF o = "corrupted" THEN i ELSE nextItem
       /\ successful' = IF o = "success" THEN successful + 1 ELSE successful
       /\ failed' = IF o = "failed" THEN failed + 1 ELSE failed
       /\ UNCHANGED corrupted
       /\ progress' = progress + 1
    /\ UNCHANGED <<errored, backend, maxWorkers, sigint, dirVars, listVars,
                   dlVars, lockedCall, pool, workerVars, direction, phase,
                   nItems, item, attempt, waited, tries, fileOk, endVars>>

\* The main thread takes one finished future from as_completed, counts it
\* and advances the progress bar: one whole iteration of the loop.
collect(i) ==
    /\ phase = "run"
    /\ i <= nItems
    /\ result[i] # "pending"
    /\ outcome[i] = "none"
    /\ LET o == FoldOutcome(direction, result[i], fileOk[i]) IN
       /\ outcome' = [outcome EXCEPT ![i] = o]
       /\ successful' = IF o = "success" THEN successful + 1 ELSE successful
       /\ failed' = IF o = "failed" THEN failed + 1 ELSE failed
       /\ corrupted' = IF o = "corrupted" THEN corrupted + 1 ELSE corrupted
       /\ progress' = progress + 1
    /\ UNCHANGED <<errored, backend, maxWorkers, sigint, dirVars, listVars,
                   dlVars, lockedCall, pool, workerVars, direction, phase,
                   nItems, nextItem, item, attempt, waited, tries, result,
                   fileOk, endVars>>

\* The same iteration in the two steps that the terminal can tell apart.
\* First the counter is bumped and pbar.set_postfix shows the new counts
\* (set_postfix redraws the bar, with its count not yet advanced).
count_future(i) ==
    /\ phase = "run"
    /\ i <= nItems
    /\ result[i] # "pending"
    /\ outcome[i] = "none"
    /\ progress = successful + failed + corrupted
    /\ LET o == FoldOutcome(direction, result[i], fileOk[i]) IN
       /\ outcome' = [outcome EXCEPT ![i] = o]
       /\ successful' = IF o = "success" THEN successful + 1 ELSE successful
       /\ failed' = IF o = "failed" THEN failed + 1 ELSE failed
       /\ corrupted' = IF o = "corrupted" THEN corrupted + 1 ELSE corrupted
    /\ UNCHANGED <<errored, backend, maxWorkers, sigint, dirVars, listVars,
                   dlVars, lockedCall, pool, workerVars, direction, phase,
                   nItems, nextItem, item, attempt, waited, tries, result,
                   fileOk, progress, endVars>>

\* Then pbar.update(1) ends the iteration.
pbar_update ==
    /\ phase = "run"
    /\ progress < successful + failed + corrupted
    /\ progress' = progress + 1
    /\ UNCHANGED <<errored, backend, maxWorkers, sigint, dirVars, listVars,
                   dlVars, lockedCall, pool, workerVars, runVars, successful,
                   failed, corrupted, endVars>>

directory_returns_early ==
    /\ phase = "run"
    /\ \E i \in 1..nItems : outcome[i] # "none"
    /\ phase' = "cleanup"
    /\ fromPool' = [w \in Workers |-> FALSE]
    /\ fate' = [w \in Workers |-> "none"]
    /\ lastReturn' = [w \in Workers |-> "none"]
    /\ attempt' = [w \in Workers |-> 0]
    /\ waited' = [w \in Workers |-> 0]
    /\ tries' = [i \in Items |-> 0]
    /\ lastError' = [w \in Workers |-> "none"]
    /\ result' = [i \in Items |-> "pending"]
    /\ fileOk' = [i \in Items |-> FALSE]
    /\ outcome' = [i \in Items |-> "none"]
    /\ UNCHANGED <<errored, backend, maxWorkers, sigint, dirVars, listVars,
                   dlVars, lockedCall, pool, pc, held, heldAlive, direction,
                   nItems, nextItem, item, countVars, endVars>>

\* as_completed is exhausted and the executor has shut down:
\* download_directory / upload_directory returns the counts; its futures and
\* the threads' locals are gone.
directory_returns ==
    /\ phase = "run"
    /\ \A i \in 1..nItems : outcome[i] # "none"
    /\ progress = successful + failed + corrupted
    /\ phase' = "cleanup"
    /\ fromPool' = [w \in Workers |-> FALSE]
    /\ fate' = [w \in Workers |-> "none"]
    /\ lastReturn' = [w \in Workers |-> "none"]
    /\ attempt' = [w \in Workers |-> 0]
    /\ waited' = [w \in Workers |-> 0]
    /\ tries' = [i \in Items |-> 0]
    /\ lastError' = [w \in Workers |-> "none"]
    /\ result' = [i \in Items |-> "pending"]
    /\ fileOk' = [i \in Items |-> FALSE]
    /\ outcome' = [i \in Items |-> "none"]
    /\ UNCHANGED <<errored, backend, maxWorkers, sigint, dirVars, listVars,
                   dlVars, lockedCall, pool, pc, held, heldAlive, direction,
                   nItems, nextItem, item, countVars, endVars>>

\* Ctrl-C during the run: KeyboardInterrupt is raised in the main thread,
\* inside the as_completed loop.  Nothing in download_directory /
\* upload_directory catches it; it leaves the loop and reaches the end of the
\* `with ThreadPoolExecutor` block, whose __exit__ calls shutdown(wait=True):
\* no future is cancelled, and the main thread waits for the threads.  The
\* loop's counters are never returned: the model forgets them.
interrupt ==
    /\ phase = "run"
    /\ phase' = "interrupted"
    /\ sigint' = TRUE
    /\ outcome' = [i \in Items |-> "none"]
    /\ successful' = 0
    /\ failed' = 0
    /\ corrupted' = 0
    /\ progress' = 0
    /\ UNCHANGED <<errored, backend, maxWorkers, dirVars, listVars, dlVars,
                   lockedCall, pool, workerVars, direction, nItems, nextItem,
                   item, attempt, waited, tries, result, fileOk, endVars>>

\* The threads have run every queued future and ended; shutdown returns, the
\* KeyboardInterrupt travels on to main(), which prints "Operation
\* cancelled" and returns 1.  client.cleanup() is not called.
main_catches_interrupt ==
    /\ phase = "interrupted"
    /\ nextItem > nItems
    /\ \A w \in Workers : pc[w] = "idle"
    /\ phase' = "done"
    /\ exitCode' = 1
    /\ fromPool' = [w \in Workers |-> FALSE]
    /\ fate' = [w \in Workers |-> "none"]
    /\ lastReturn' = [w \in Workers |-> "none"]
    /\ lastError' = [w \in Workers |-> "none"]
    /\ attempt' = [w \in Workers |-> 0]
    /\ waited' = [w \in Workers |-> 0]
    /\ tries' = [i \in Items |-> 0]
    /\ result' = [i \in Items |-> "pending"]
    /\ fileOk' = [i \in Items |-> FALSE]
    /\ outcome' = [i \in Items |-> "none"]
    /\ UNCHANGED <<errored, backend, maxWorkers, sigint, dirVars, listVars,
                   dlVars, lockedCall, pool, pc, held, heldAlive, direction,
                   nItems, nextItem, item, countVars, verdict>>

\* client.cleanup(): the pool is emptied (BunnyCDNClient quits each session).
cleanup ==
    /\ phase = "cleanup"
    /\ pool' = <<>>
    /\ phase' = "verdict"
    /\ lockedCall' = CallUnderLock(backend, "cleanup", pool)
    /\ UNCHANGED <<errored, backend, maxWorkers, sigint, dirVars, listVars,
                   dlVars, workerVars, direction, nItems, nextItem, item,
                   attempt, waited, tries, result, fileOk, outcome, countVars,
                   endVars>>

\* ------------------------------------------------------ the final verdict

TotalAttemptedWithoutCorrupted(s, f, c) == s + f

\* total_attempted = successful + failed + corrupted
TotalAttempted(s, f, c) == s + f + c

SuccessRateAboveStrictly(s, total, pct) == s * 100 > pct * total

\* success_rate >= pct, where success_rate = successful / total_attempted * 100
\* in double precision.  For the counts a run can produce the rounded
\* quotient compares with 90.0 and 70.0 exactly as the fraction does, so the
\* comparison is stated on integers.
SuccessRateAtLeast(s, total, pct) == s * 100 >= pct * total

download_verdict_empty_succeeds(s, f, c) ==
    LET total == TotalAttempted(s, f, c) IN
    IF total = 0 THEN <<"Success", 0>>
    ELSE IF s = 0 THEN <<"Failure", 1>>
    ELSE IF SuccessRateAtLeast(s, total, 90) THEN <<"Success", 0>>
    ELSE IF SuccessRateAtLeast(s, total, 70) THEN <<"DegradedSuccess", 0>>
    ELSE <<"Failure", 1>>

download_verdict_degraded_fails(s, f, c) ==
    LET total == TotalAttempted(s, f, c) IN
    IF total = 0 THEN <<"Failure", 1>>
    ELSE IF s = 0 THEN <<"Failure", 1>>
    ELSE IF SuccessRateAtLeast(s, total, 90) THEN <<"Success", 0>>
    ELSE IF SuccessRateAtLeast(s, total, 70) THEN <<"DegradedSuccess", 1>>
    ELSE <<"Failure", 1>>

\* The tail of download_command: the branch taken and the value returned.
download_verdict(s, f, c) ==
    LET total == TotalAttempted(s, f, c) IN
    IF total = 0 THEN <<"Failure", 1>>
    ELSE IF s = 0 THEN <<"Failure", 1>>
    ELSE IF SuccessRateAtLeast(s, total, 90) THEN <<"Success", 0>>
    ELSE IF SuccessRateAtLeast(s, total, 70) THEN <<"DegradedSuccess", 0>>
    ELSE <<"Failure", 1>>

upload_verdict_by_rate(s, f) == download_verdict(s, f, 0)

\* The tail of upload_command.
upload_verdict(s, f) ==
    IF f > 0 THEN <<"Failure", 1>> ELSE <<"Success", 0>>

\* download_command / upload_command after client.cleanup(): classify the
\* counts and return.
command_returns ==
    /\ phase = "verdict"
    /\ LET v == IF direction = "download"
                THEN download_verdict(successful, failed, corrupted)
                ELSE upload_verdict(successful, failed)
       IN /\ verdict' = v[1]
          /\ exitCode' = v[2]
    /\ phase' = "done"
    /\ UNCHANGED <<errored, backend, maxWorkers, sigint, dirVars, listVars,
                   dlVars, lockedCall, pool, workerVars, direction, nItems,
                   nextItem, item, attempt, waited, tries, result, fileOk,
                   outcome, countVars>>

\* The classification on its own: the counts a finished run of up to
\* 3 * MaxCount items hands to the command, every thread gone.
ClassifyInit ==
    /\ errored = {}
    /\ DirIdle
    /\ sigint = FALSE
    /\ backend \in Backends
    /\ direction \in Directions
    /\ maxWorkers = 0
    /\ pool = <<>>
    /\ lockedCall = "none"
    /\ pc = <<>> /\ held = <<>> /\ heldAlive = <<>> /\ fromPool = <<>>
    /\ fate = <<>> /\ lastReturn = <<>> /\ lastError = <<>>
    /\ phase = "verdict"
    /\ nItems = 0 /\ nextItem = 1
    /\ item = <<>> /\ attempt = <<>> /\ waited = <<>> /\ tries = <<>>
    /\ result = <<>>
    /\ fileOk = <<>> /\ outcome = <<>>
    /\ successful \in 0..MaxCount
    /\ failed \in 0..MaxCount
    /\ corrupted \in (IF direction = "download" THEN 0..MaxCount ELSE {0})
    /\ progress = 0
    /\ verdict = "none"
    /\ exitCode = -1
    /\ ListIdle
    /\ DownloadIdle

ClassifySpec == ClassifyInit /\ [][command_returns]_vars

\* ------------------------------------------------- the command as a whole

\* A client just constructed, and a download or upload command about to test
\* the connection.
Init ==
    /\ errored = {}
    /\ DirIdle
    /\ sigint = FALSE
    /\ backend \in Backends
    /\ direction \in Directions
    /\ maxWorkers \in 1..NumWorkers
    /\ pool = <<>>
    /\ lockedCall = "none"
    /\ pc = [w \in Workers |-> "idle"]
    /\ held = [w \in Workers |-> NoSession]
    /\ heldAlive = [w \in Workers |-> FALSE]
    /\ fromPool = [w \in Workers |-> FALSE]
    /\ fate = [w \in Workers |-> "none"]
    /\ lastReturn = [w \in Workers |-> "none"]
    /\ lastError = [w \in Workers |-> "none"]
    /\ phase = "test"
    /\ nItems = 0
    /\ nextItem = 1
    /\ item = [w \in Workers |-> NoItem]
    /\ attempt = [w \in Workers |-> 0]
    /\ waited = [w \in Workers |-> 0]
    /\ tries = [i \in Items |-> 0]
    /\ result = [i \in Items |-> "pending"]
    /\ fileOk = [i \in Items |-> FALSE]
    /\ outcome = [i \in Items |-> "none"]
    /\ successful = 0
    /\ failed = 0
    /\ corrupted = 0
    /\ progress = 0
    /\ verdict = "none"
    /\ exitCode = -1
    /\ ListIdle
    /\ DownloadIdle

WorkerNext(w) ==
    \/ worker_takes_item(w)
    \/ worker_gets_connection(w)
    \/ worker_creates_connection(w)
    \/ transfer_file(w)
    \/ worker_returns_connection(w)

Next ==
    \/ test_connection
    \/ list_files
    \/ walk_local_tree
    \/ \E w \in Workers : WorkerNext(w)
    \/ \E i \in Items : collect(i)
    \/ directory_returns
    \/ interrupt
    \/ main_catches_interrupt
    \/ cleanup
    \/ command_returns

Spec == Init /\ [][Next]_vars

\* KeyboardInterrupt raised in the main thread outside the executor block
\* and outside every bare except clause: during test_connection, while the
\* lister holds its session, in cleanup, or while the verdict is computed.
\* `except Exception` does not catch it; it reaches main(), which returns 1.
\* A session the lister had taken from the pool is then lost to the pool.
interrupt_propagates ==
    /\ phase \in {"test", "list", "cleanup", "verdict"}
    /\ sigint' = TRUE
    /\ phase' = "done"
    /\ exitCode' = 1
    /\ pool' \in {pool} \cup
                 (IF phase = "list" /\ direction = "download" /\ pool # <<>>
                  THEN {PopConnection(pool)} ELSE {})
    /\ UNCHANGED <<errored, backend, maxWorkers, dirVars, listVars, dlVars,
                   lockedCall, workerVars, direction, nItems, nextItem, item,
                   attempt, waited, tries, result, fileOk, outcome, countVars,
                   verdict>>

\* KeyboardInterrupt raised in the main thread inside a bare except clause,
\* which catches it like any failure and goes on: in the probe of
\* _return_client at the end of HetznerS3Client.test_connection, in the
\* probe of _return_connection / _return_client at the end of the lister
\* (the session is not pooled), and in ftp.quit() inside
\* BunnyCDNClient.cleanup.
interrupt_swallowed ==
    /\ sigint' = TRUE
    /\ \/ /\ phase = "test"
          /\ backend = "hetzner"
          /\ phase' = "list"
          /\ UNCHANGED <<pool, lockedCall, nItems>>
       \/ /\ phase = "list"
          /\ direction = "download"
          /\ pool' = IF pool = <<>> THEN pool ELSE PopConnection(pool)
          /\ lockedCall' = CallUnderLock(backend, "acquire", pool)
          /\ \E n \in 0..NumItems :
               /\ nItems' = n
               /\ phase' = IF n = 0 THEN "cleanup" ELSE "run"
       \/ /\ phase = "cleanup"
          /\ backend = "bunny"
          /\ pool # <<>>
          /\ pool' = <<>>
          /\ phase' = "verdict"
          /\ lockedCall' = CallUnderLock(backend, "cleanup", pool)
          /\ UNCHANGED nItems
    /\ UNCHANGED <<errored, backend, maxWorkers, dirVars, listVars, dlVars,
                   workerVars, direction, nextItem, item, attempt, waited,
                   tries, result, fileOk, outcome, countVars, endVars>>

\* The whole command with the interrupt arriving at any point.
InterruptNext ==
    \/ Next
    \/ interrupt_propagates
    \/ interrupt_swallowed

InterruptSpec == Init /\ [][InterruptNext]_vars

\* The whole command again, with each iteration of the collecting loop taken
\* in its two steps.
ProgressNext ==
    \/ test_connection
    \/ list_files
    \/ walk_local_tree
    \/ \E w \in Workers : WorkerNext(w)
    \/ \E i \in Items : count_future(i)
    \/ pbar_update
    \/ directory_returns
    \/ interrupt
    \/ main_catches_interrupt
    \/ cleanup
    \/ command_returns

ProgressSpec == Init /\ [][ProgressNext]_vars

\* Every thread keeps being scheduled and every remote call returns or
\* raises (the sockets have timeouts): a step that can be taken is taken.
FairSpec == Spec /\ WF_vars(Next)

\* ------------------------------------------------------- claims on the pool

\* C1: no session is held by two threads at once, and no session is at once
\* idle in the pool and held by a thread (nor twice in the pool).
NoDoubleCheckout ==
    /\ \A w1, w2 \in DOMAIN held :
         (w1 # w2 /\ held[w1] # NoSession) => held[w1] # held[w2]
    /\ \A w \in DOMAIN held : \A k \in 1..Len(pool) :
         held[w] # NoSession => pool[k] # held[w]
    /\ \A j, k \in 1..Len(pool) : j # k => pool[j] # pool[k]

\* C1's case: two threads hold sessions at once, both popped from the pool,
\* while other sessions are idle.
TwoCheckoutsFromPool ==
    \E w1, w2 \in DOMAIN held :
        /\ w1 # w2
        /\ pc[w1] = "holding" /\ fromPool[w1]
        /\ pc[w2] = "holding" /\ fromPool[w2]
        /\ Len(pool) > 0

\* C3: a thread that has been handed a pooled session holds a live one
\* (acquire probed it and replaced a dead one by a new session).
AcquireHandsOutLiveSessions ==
    \A w \in DOMAIN held :
        (pc[w] = "holding" /\ fromPool[w]) => heldAlive[w]

\* C4: the idle pool never holds more than 10 sessions, and the locked part
\* of a release that finds 10 leaves the pool as it is.
PoolCapacity ==
    /\ [](Len(pool) <= MaxPoolSize)
    /\ [][\A w \in DOMAIN pc :
            (pc[w] = "release_locked" /\ pc'[w] = "released"
             /\ Len(pool) = MaxPoolSize) => pool' = pool]_vars

\* C4's case: a release found the pool at 10 and the pool is still at 10.
ReleaseFoundPoolFull ==
    \E w \in DOMAIN pc :
        /\ pc[w] = "released"
        /\ lastReturn[w] = "full"
        /\ Len(pool) = MaxPoolSize

\* C5: a session release did not put into the pool (dead, or pool full) has
\* been closed by release.
ReleaseClosesWhatItDoesNotKeep ==
    \A w \in DOMAIN pc :
        lastReturn[w] \in {"dead", "full"} => fate[w] = "closed"

\* ------------------------------------------ claims on the single-file transfer

\* C2: an attempt of download_file / upload_file that acquired a session has
\* released it (pooled or closed it) when the attempt ends, however it ends:
\* no thread has left an attempt with its session neither pooled nor closed.
AttemptsReleaseTheirSession ==
    \A w \in DOMAIN fate : fate[w] # "unreleased"

\* C6: in both backends a transfer that fails transiently is attempted again
\* until 3 attempts are made: a call that has returned False after a
\* transient failure was in its 3rd attempt, and no item is attempted more
\* than 3 times.
TransientFailureExhaustsRetries ==
    /\ \A w \in DOMAIN pc :
         (phase = "run" /\ pc[w] = "idle" /\ lastError[w] = "transient")
             => attempt[w] = MaxRetries - 1
    /\ \A i \in DOMAIN tries : tries[i] <= MaxRetries

\* C7: an item whose first two attempts failed and whose third succeeded is
\* counted once, as a success: once collected its outcome is success, and
\* the counters successful and failed count the collected outcomes and
\* nothing else (a failed attempt of an item bumps no counter).
RetriedSuccessCountsOnce ==
    phase = "run" =>
        /\ \A i \in 1..nItems :
             (tries[i] = MaxRetries /\ result[i] = "true" /\ fileOk[i])
                 => outcome[i] \in {"none", "success"}
        /\ successful = Cardinality({i \in 1..nItems : outcome[i] = "success"})
        /\ failed = Cardinality({i \in 1..nItems : outcome[i] = "failed"})

\* C7's case: a download that succeeded at its third attempt, leaving a
\* non-empty file, has been collected, and the counters show one success and
\* no failure.
ThirdAttemptSucceededAndCounted ==
    /\ phase = "run"
    /\ direction = "download"
    /\ \E i \in 1..nItems :
         /\ tries[i] = MaxRetries
         /\ result[i] = "true"
         /\ fileOk[i]
         /\ outcome[i] = "success"
    /\ successful = 1
    /\ failed = 0

\* C8: an attempt that failed with a non-transient error is not followed by
\* another attempt: no thread waits to retry after such an error.
PermanentFailureIsNotRetried ==
    \A w \in DOMAIN pc : pc[w] = "backoff" => lastError[w] # "permanent"

\* -------------------------------------------------- claims on the verdict

\* C9: the download verdict is Failure when nothing was attempted or nothing
\* succeeded; otherwise Success from a rate of 90%, DegradedSuccess from 70%,
\* Failure below, the total counting failed and corrupted alike.
DownloadVerdictMatchesPolicy ==
    (phase = "done" /\ direction = "download") =>
        LET total == successful + failed + corrupted IN
        verdict = IF total = 0 \/ successful = 0 THEN "Failure"
                  ELSE IF 10 * successful >= 9 * total THEN "Success"
                  ELSE IF 10 * successful >= 7 * total THEN "DegradedSuccess"
                  ELSE "Failure"

\* C9's case: a run classified Success although some items failed and some
\* were corrupted.
SuccessDespiteFailedAndCorrupted ==
    /\ phase = "done" /\ direction = "download"
    /\ verdict = "Success"
    /\ failed > 0 /\ corrupted > 0

\* C10: the thresholds are inclusive: exactly 70% is DegradedSuccess and
\* anything below is Failure; exactly 90% is Success and anything from 70%
\* up to but excluding 90% is DegradedSuccess.
ThresholdsInclusive ==
    LET total == successful + failed + corrupted IN
    (phase = "done" /\ direction = "download" /\ total > 0) =>
        /\ 10 * successful = 7 * total => verdict = "DegradedSuccess"
        /\ 10 * successful < 7 * total => verdict = "Failure"
        /\ 10 * successful = 9 * total => verdict = "Success"
        /\ (10 * successful >= 7 * total /\ 10 * successful < 9 * total)
               => verdict = "DegradedSuccess"

\* C10's case: a classified run whose rate is exactly 70%.
RateExactlySeventy ==
    /\ phase = "done" /\ direction = "download"
    /\ successful > 0
    /\ 10 * successful = 7 * (successful + failed + corrupted)
    /\ verdict = "DegradedSuccess"

\* C11: the download command returns 0 exactly when the verdict over the
\* final counts is Success or DegradedSuccess and 1 when it is Failure: 0
\* exactly when something succeeded and the rate is at least 70% (9 of 10
\* and 7 of 10 give 0, 5 of 10 gives 1).
DownloadExitCodeFollowsVerdict ==
    (phase = "done" /\ direction = "download" /\ verdict # "none") =>
        LET total == successful + failed + corrupted IN
        /\ exitCode \in {0, 1}
        /\ exitCode = 0 <=> verdict \in {"Success", "DegradedSuccess"}
        /\ exitCode = 1 <=> verdict = "Failure"
        /\ exitCode = 0 <=> (successful > 0 /\ 10 * successful >= 7 * total)
        /\ (total = 10 /\ successful \in {7, 9}) => exitCode = 0
        /\ (total = 10 /\ successful = 5) => exitCode = 1

\* C11's case: 7 of 10 downloads succeeded, 3 failed, and the command
\* returned 0 on the DegradedSuccess branch.
SevenOfTenReturnsZero ==
    /\ phase = "done" /\ direction = "download"
    /\ successful = 7 /\ failed = 3 /\ corrupted = 0
    /\ verdict = "DegradedSuccess"
    /\ exitCode = 0

\* C12: the upload command's exit code is the classifier's verdict over the
\* upload's counts, Success and DegradedSuccess giving 0 and Failure 1 (9
\* of 10 uploaded gives 0).
UploadExitCodeFollowsClassifier ==
    (phase = "done" /\ direction = "upload" /\ verdict # "none") =>
        exitCode = download_verdict(successful, failed, 0)[2]

\* ------------------------------------------------ claims on the bulk run

\* C13: when the listing yields no item (empty directory, missing path or
\* listing error), download_directory returns (0, 0, 0), no executor thread
\* has taken a future or acquired a session, and the command returns 1.
EmptyDownloadFails ==
    (direction = "download" /\ nItems = 0
     /\ phase \in {"cleanup", "verdict", "done"}) =>
        /\ successful = 0 /\ failed = 0 /\ corrupted = 0
        /\ nextItem = 1
        /\ \A w \in DOMAIN pc :
             pc[w] = "idle" /\ held[w] = NoSession /\ fate[w] = "none"
        /\ phase = "done" => exitCode = 1

\* C13's case: the connection test passed, the listing was empty and the
\* command has returned 1 on its "no files" branch.
EmptyListingReturnedOne ==
    /\ direction = "download"
    /\ phase = "done"
    /\ nItems = 0
    /\ verdict = "Failure"
    /\ exitCode = 1

\* C14: a download that returned True but left no file, or an empty one, is
\* counted as corrupted, not as a success and not as failed; and corrupted
\* items count in the denominator of the success rate, not in its numerator.
CorruptedIsCountedApart ==
    /\ phase = "run" =>
         /\ \A i \in 1..nItems :
              (direction = "download" /\ result[i] = "true" /\ ~fileOk[i]
               /\ outcome[i] # "none") => outcome[i] = "corrupted"
         /\ corrupted =
              Cardinality({i \in 1..nItems : outcome[i] = "corrupted"})
    /\ (phase = "done" /\ direction = "download" /\ verdict # "none") =>
         (exitCode = 0 <=>
            /\ successful > 0
            /\ 10 * successful >= 7 * (successful + failed + corrupted))

\* C14's case: one download succeeded, one was corrupted, none failed, and
\* at a rate of 1 in 2 the command returned 1.
OneCorruptedOfTwoFails ==
    /\ phase = "done" /\ direction = "download"
    /\ successful = 1 /\ corrupted = 1 /\ failed = 0
    /\ verdict = "Failure"
    /\ exitCode = 1

\* C15: an exception that leaves one item's transfer function is caught by
\* the collector and counted as one failure of that item; the run is not
\* aborted, and every other listed item still gets its own outcome (unless
\* the user interrupts the run).
FaultIsolation ==
    /\ [](phase = "run" =>
            /\ \A i \in 1..nItems :
                 (result[i] = "raised" /\ outcome[i] # "none")
                     => outcome[i] = "failed"
            /\ failed = Cardinality({i \in 1..nItems : outcome[i] = "failed"}))
    /\ \A i, j \in Items :
         (phase = "run" /\ i <= nItems /\ j <= nItems /\ i # j
          /\ result[j] = "raised")
             ~> (outcome[i] # "none" \/ phase = "interrupted")

\* C15's case: the first item's transfer raised and was counted as failed,
\* and the second item, started after it, was transferred and counted as a
\* success.
SiblingSucceededAfterRaise ==
    /\ phase = "run"
    /\ nItems = 2
    /\ result[1] = "raised" /\ outcome[1] = "failed"
    /\ result[2] = "true" /\ outcome[2] = "success"
    /\ failed = 1 /\ successful = 1

CountsDependOnResultsOnly ==
    phase = "run" =>
        LET Counted(o) ==
              Cardinality({i \in 1..nItems :
                  /\ outcome[i] # "none"
                  /\ FoldOutcome(direction, result[i], fileOk[i]) = o})
        IN /\ successful = Counted("success")
           /\ failed = Counted("failed")
           /\ corrupted = Counted("corrupted")

\* C17's case: the second item was collected, as a success, before the first,
\* which had already failed; the counters show the one success only.
SecondItemCollectedFirst ==
    /\ phase = "run"
    /\ nItems = 2
    /\ result[1] = "false" /\ outcome[1] = "none"
    /\ result[2] = "true" /\ outcome[2] = "success"
    /\ successful = 1 /\ failed = 0 /\ corrupted = 0

\* C18: at every moment of a run at most maxWorkers transfers are executing
\* and at most maxWorkers sessions are held by executor threads; the items
\* beyond that wait in the queue, untouched, until a thread is free.
BoundedParallelism ==
    phase = "run" =>
        /\ Cardinality({w \in Workers : pc[w] # "idle"}) <= maxWorkers
        /\ Cardinality({w \in Workers : item[w] # NoItem}) <= maxWorkers
        /\ Cardinality({w \in Workers : held[w] # NoSession}) <= maxWorkers
        /\ \A i \in 1..nItems :
             i >= nextItem => (result[i] = "pending" /\ tries[i] = 0)

\* C18's case: an executor of one thread is transferring the first of two
\* items with a session held, and the second item waits in the queue.
SecondItemWaitsForTheOnlyThread ==
    /\ phase = "run"
    /\ maxWorkers = 1
    /\ nItems = 2
    /\ pc[1] = "holding" /\ item[1] = 1 /\ held[1] # NoSession
    /\ nextItem = 2
    /\ result[2] = "pending"

\* C19: the pool is changed only with the pool's lock held, and no remote
\* call (probe, session creation, close or quit) is made while the lock is
\* held: no `with self._pool_lock` block has made a remote call.
NoRemoteCallUnderLock ==
    lockedCall = "none"

\* C20: after an interrupt has arrived during a run no item that had not
\* started is started (transfers in flight being left to end by themselves):
\* once the main thread has been interrupted no thread takes a queued future.
NoItemStartedAfterInterrupt ==
    [][phase = "interrupted" => nextItem' = nextItem]_vars

\* ------------------------------------------- claims on the command's ends

\* C21: when the command returns, by whatever path (the connection test
\* failed, the run ended, the user interrupted it), the idle pool is empty
\* and no session of the client is left open.
ReturnLeavesPoolEmpty ==
    phase = "done" => pool = <<>>

\* C22: when acquire finds the pool empty and creating a session fails, the
\* idle pool is unchanged, the calling thread's item ends as failed, and
\* nothing of any other thread or item is touched.
AcquireFailureIsLocal ==
    [][\A w \in Workers :
         (pc[w] = "create" /\ lastError'[w] = "connection") =>
             /\ pool' = pool
             /\ result'[item[w]] = "false"
             /\ \A v \in Workers \ {w} :
                  /\ pc'[v] = pc[v]
                  /\ held'[v] = held[v]
                  /\ item'[v] = item[v]
             /\ \A i \in Items \ {item[w]} :
                  result'[i] = result[i] /\ tries'[i] = tries[i]]_vars

\* C23: upload_file called for a local file that does not exist returns
\* False at once: the step that ends the item as failed with no attempt made
\* takes no session, makes no remote call, starts no retry or backoff and
\* leaves the pool as it was.
MissingSourceFailsAtOnce ==
    [][\A i \in Items :
         (result[i] = "pending" /\ result'[i] = "false" /\ tries'[i] = 0) =>
             /\ direction = "upload"
             /\ pool' = pool
             /\ lockedCall' = lockedCall
             /\ held' = held
             /\ pc' = pc
             /\ tries' = tries]_vars

\* C23's case: an upload item failed with no attempt made and was counted
\* as failed, while an idle session was in the pool.
MissingSourceCountedAsFailed ==
    /\ phase = "run"
    /\ direction = "upload"
    /\ pool # <<>>
    /\ \E i \in 1..nItems :
         result[i] = "false" /\ tries[i] = 0 /\ outcome[i] = "failed"

\* C24: the lister returns every remote entry it would keep, however many
\* entries the directory holds: all `padding` matching files that come
\* first, and as many of the entries after them as pass the lister's own
\* test; none is left out because of a page or count limit.
ListerReturnsEveryMatch ==
    listAnswer = "entries" =>
        /\ listing.padding = padding
        /\ Len(listing.names) =
             Cardinality({k \in 1..Len(remote) :
                            ListKeeps(backend, remote[k], extensions)})

\* C25: for a directory below the page limit, the listing holds exactly the
\* entries that are not directories and whose name ends, whatever the case
\* of its letters, with one of the allowed extensions; with no extensions
\* given it holds every entry that is not a directory.
ListingIsExactlyTheFiles ==
    LET EndsWithIgnoringCase(name, ext) ==
            /\ Len(ext) <= Len(name)
            /\ \A k \in 1..Len(ext) :
                 Lower(name[Len(name) - Len(ext) + k]) = Lower(ext[k])
        Wanted(entry) ==
            /\ ~entry.dir
            /\ \/ extensions = {}
               \/ \E ext \in extensions : EndsWithIgnoringCase(entry.name, ext)
        wanted == SelectSeq(remote, Wanted)
    IN  (listAnswer = "entries" /\ padding + Len(remote) <= MaxKeys) =>
            listing.names = [k \in 1..Len(wanted) |-> wanted[k].name]

\* C26: when the remote reports that the path does not exist, the lister
\* returns the empty list without raising, and has handed its session to
\* release, which put it back into the pool unless its probe failed; the
\* run then goes on with no work item.
MissingPathListsNothing ==
    (listAnswer = "notfound" /\ pc[MainThread] = "released") =>
        /\ listing = EmptyListing
        /\ lastReturn[MainThread] \in {"pooled", "dead"}
        /\ fate[MainThread] # "unreleased"
        /\ lastReturn[MainThread] = "pooled" => pool # <<>>
        /\ phase # "none" => (phase = "cleanup" /\ nItems = 0)

\* C26's case: the path was missing, the session came back into the pool
\* and the run went on with nothing to transfer.
MissingPathRunWentOn ==
    /\ listAnswer = "notfound"
    /\ ~pathExists
    /\ lastReturn[MainThread] = "pooled"
    /\ pool # <<>>
    /\ phase = "cleanup"
    /\ nItems = 0

\* C27: the wait after failed attempt n (n = 1, 2) of a transfer that is
\* retried is 2^(n-1) time units, 1 then 2, whatever else happened; no wait
\* follows the 3rd failed attempt, so a call that returns False after its
\* 3rd attempt has waited 3 units in all.
BackoffSchedule ==
    [][\A w \in Workers :
         /\ (pc[w] # "backoff" /\ pc'[w] = "backoff") =>
               /\ tries'[item[w]] \in {1, 2}
               /\ waited'[w] - waited[w] = 2 ^ (tries'[item[w]] - 1)
         /\ (item[w] # NoItem /\ tries'[item[w]] = MaxRetries
               /\ tries[item[w]] = MaxRetries - 1) =>
               /\ pc'[w] # "backoff"
               /\ waited'[w] = waited[w]
               /\ waited'[w] = 3]_vars

\* C27's case: a thread's call returned False after three failed attempts,
\* having waited 1 and then 2 units.
ExhaustedAfterThreeUnits ==
    /\ phase = "run"
    /\ \E w \in Workers, i \in 1..nItems :
         /\ pc[w] = "idle"
         /\ item[w] = NoItem
         /\ attempt[w] = MaxRetries - 1
         /\ waited[w] = 3
         /\ tries[i] = MaxRetries
         /\ result[i] = "false"

\* C28: when the connection test at the start of a command fails, the
\* command returns 1 in that very step: the step of the test that sets the
\* exit code ends the command with the pool untouched, nothing listed, no
\* future submitted and no thread started; and the command, once it has
\* returned, takes no further step (no second test, no listing, no transfer).
ConnectionTestFailureIsFatal ==
    [][/\ phase # "done"
       /\ (phase = "test" /\ exitCode' # exitCode) =>
             /\ phase' = "done"
             /\ exitCode' = 1
             /\ pool' = pool
             /\ nItems' = 0
             /\ nextItem' = nextItem
             /\ result' = result
             /\ tries' = tries
             /\ pc' = pc]_vars

\* C28's case: the command returned 1 from the connection test, with
\* nothing listed, nothing taken by a thread and no verdict computed.
ReturnedOneFromConnectionTest ==
    /\ phase = "done"
    /\ exitCode = 1
    /\ verdict = "none"
    /\ nItems = 0
    /\ nextItem = 1
    /\ pool = <<>>
    /\ \A i \in Items : result[i] = "pending" /\ tries[i] = 0

\* C29: release never raises and never pools a session whose probe failed:
\* every step of _return_connection / _return_client leaves the caller
\* inside release or back from it, and the step at which the probe fails
\* returns to the caller with the pool as it was and the session not in it.
ReleaseNeverFailsTheCaller ==
    [][\A w \in Callers :
         pc[w] \in {"release", "release_locked"} =>
            /\ pc'[w] \in {"release", "release_locked", "released"}
            /\ (/\ pc[w] = "release"
                /\ pc'[w] \notin {"release", "release_locked"}) =>
                  /\ pc'[w] = "released"
                  /\ lastReturn'[w] = "dead"
                  /\ pool' = pool
                  /\ \A k \in 1..Len(pool') : pool'[k] # held[w]]_vars

\* C29's case: a caller is back from a release whose probe failed, having
\* released a session it had taken from the pool.
ReleaseCameBackAfterFailedProbe ==
    \E w \in Callers :
        /\ pc[w] = "released"
        /\ lastReturn[w] = "dead"
        /\ fromPool[w]
        /\ held[w] = NoSession

\* C30: a download that returned True but left an empty or missing file is
\* counted once, as corrupted, and never attempted again: while the run
\* lasts its future keeps its result, no thread takes the item again, no
\* item goes back to the queue, the step that counts it adds 1 to corrupted
\* and to nothing else, and once counted it stays counted as corrupted.
CorruptionIsNotRetried ==
    [][\A i \in Items :
         (/\ phase = "run" /\ phase' = "run"
          /\ direction = "download"
          /\ result[i] = "true" /\ ~fileOk[i]) =>
             /\ result'[i] = "true"
             /\ tries'[i] = tries[i]
             /\ nextItem' >= nextItem
             /\ \A w \in Workers : item'[w] # i
             /\ (outcome[i] = "none" /\ outcome'[i] # "none") =>
                   /\ outcome'[i] = "corrupted"
                   /\ corrupted' = corrupted + 1
                   /\ successful' = successful
                   /\ failed' = failed
             /\ outcome[i] = "corrupted" =>
                   /\ outcome'[i] = "corrupted"
                   /\ corrupted' >= corrupted]_vars

\* C30's case: with the backend that retries failures, a download was counted
\* as corrupted and every thread has finished without touching it again.
CorruptedDownloadLeftAlone ==
    /\ phase = "run"
    /\ backend = "hetzner"
    /\ direction = "download"
    /\ nextItem > nItems
    /\ \A w \in Workers : pc[w] = "idle"
    /\ \E i \in 1..nItems :
         /\ outcome[i] = "corrupted"
         /\ result[i] = "true"
         /\ corrupted = 1

\* C31: a size query that fails, however it fails, leaves file_size at 0 and
\* does not end the attempt: the attempt ends only with the stream, and it
\* comes to True exactly when the stream completed.
SizeQueryIsBestEffort ==
    sizeOutcome \in {"client_error", "other_error"} =>
        /\ file_size = 0
        /\ dlResult # "none" => streamed # "none"
        /\ dlResult = "true" <=> streamed = "completed"

\* C32: while the completions are drained, the count the progress bar has
\* reached equals successful + failed + corrupted at every point, that sum
\* never exceeds the number of submitted items, and no counter ever
\* decreases.
ProgressIsConsistent ==
    /\ [](phase = "run" =>
            /\ progress = successful + failed + corrupted
            /\ successful + failed + corrupted <= nItems)
    /\ [][(phase = "run" /\ phase' = "run") =>
            /\ successful' >= successful
            /\ failed' >= failed
            /\ corrupted' >= corrupted
            /\ progress' >= progress]_vars

\* C33: a command during which a KeyboardInterrupt was raised, at whatever
\* point, returns 1.
InterruptReturnsOne ==
    (phase = "done" /\ sigint) => exitCode = 1

\* C34: _create_remote_directory creates parents first and takes "already
\* exists" for an answer: a directory is only ever created under an existing
\* parent; an upload whose mkd calls were answered with nothing worse than
\* "exists" has not failed, whatever the other threads did meanwhile; and
\* when such an upload is at the stream step, every directory on the way to
\* its file exists.
RemoteDirectoryCreationIsIdempotent ==
    /\ \A path \in remoteDirs : ParentExists(remoteDirs, path)
    /\ \A w \in Workers :
         mkdReplies[w] \subseteq {"created", "exists"} =>
            /\ pc[w] \in {"mkdir", "stream"}
            /\ current_dir[w] # <<>> => current_dir[w] \in remoteDirs
            /\ pc[w] = "stream" =>
                 \A k \in 1..Len(current_dir[w]) :
                    SubSeq(current_dir[w], 1, k) \in remoteDirs

\* C34's case: two threads uploading into the same new directory a/b have
\* both reached the stream step, each having created one of the two
\* directories and found the other one made by its sibling.
SiblingsSharedTheDirectory ==
    \E v, w \in Workers :
        /\ v # w
        /\ pc[v] = "stream" /\ pc[w] = "stream"
        /\ remote_dir[v] = <<"a", "b">> /\ remote_dir[w] = <<"a", "b">>
        /\ mkdReplies[v] = {"created", "exists"}
        /\ mkdReplies[w] = {"created", "exists"}

\* C35: when every thread keeps running and every remote call returns or
\* raises, the command always comes to its end; no item is attempted more
\* than 3 times; and the executor block is left (as_completed exhausted, or
\* shutdown after an interrupt) only when every submitted item has been
\* taken and completed and every thread is free.  No state is reached in
\* which the threads wait for each other at the pool.
RunTerminates ==
    /\ <>(phase = "done")
    /\ [](\A i \in Items : tries[i] <= MaxRetries)
    /\ [][(ExecutorRunning /\ ~ExecutorRunning') =>
            /\ nextItem > nItems
            /\ \A i \in 1..nItems : result[i] # "pending"
            /\ \A w \in Workers : pc[w] = "idle" /\ item[w] = NoItem]_vars

\* C35's case: a run of the backend that retries, with every item listed,
\* one of them failed, has come to its end with a verdict.
RunOfRetriesCameToItsEnd ==
    /\ phase = "done"
    /\ backend = "hetzner"
    /\ verdict # "none"
    /\ nItems = NumItems
    /\ failed >= 1
    /\ successful + failed + corrupted = nItems

\* C36: the upload command returns 0 exactly when no file failed and 1 as
\* soon as one did, whatever the share of successes; with the counts (0, 0)
\* of a missing or empty local directory it returns 0.
UploadExitCodeIsFailedCount ==
    (phase = "done" /\ direction = "upload" /\ verdict # "none") =>
        /\ exitCode \in {0, 1}
        /\ exitCode = 0 <=> failed = 0
        /\ (successful = 0 /\ failed = 0) => exitCode = 0

\* C36's cases: an upload of nothing has returned 0 (and so has none that
\* failed one file of twenty).
UploadOfNothingReturnedZero ==
    /\ phase = "done"
    /\ direction = "upload"
    /\ successful = 0 /\ failed = 0
    /\ verdict = "Success"
    /\ exitCode = 0

\* Sessions held by the threads of the run.
HeldSessions == {w \in Workers : held[w] # NoSession}

\* C37: during a bulk run the sessions idle in the pool and the sessions held
\* by threads are together never more than maxWorkers, and no release finds
\* the pool full.
LiveSessionsBoundedByWorkers ==
    /\ phase = "run" =>
          Len(pool) + Cardinality(HeldSessions) <= maxWorkers
    /\ \A w \in Workers : lastReturn[w] # "full"

\* C37's case: every thread of a run of NumWorkers threads holds a session,
\* one of them created on a pool miss while the other thread held the
\* pooled one.
EveryThreadHoldsASession ==
    /\ phase = "run"
    /\ maxWorkers = NumWorkers
    /\ pool = <<>>
    /\ Cardinality(HeldSessions) = maxWorkers
    /\ \E w \in Workers : fromPool[w]
    /\ \E w \in Workers : held[w] # NoSession /\ ~fromPool[w]

PoolAdmitsProbedAndServesNewest ==
    /\ [](\A w \in Callers : pc[w] = "release_locked" => heldAlive[w])
    /\ [][/\ Len(pool') > Len(pool) =>
               \E w \in Callers :
                   /\ pc[w] = "release_locked"
                   /\ heldAlive[w]
                   /\ pool' = Append(pool, held[w])
                   /\ lastReturn'[w] = "pooled"
          /\ \A w \in Callers :
               (pc[w] = "acquire" /\ pc'[w] # "acquire") =>
                   IF pool # <<>>
                   THEN /\ pc'[w] = "holding"
                        /\ held'[w] = pool[Len(pool)]
                        /\ pool' = SubSeq(pool, 1, Len(pool) - 1)
                   ELSE /\ pc'[w] = "create"
                        /\ pool' = pool
          /\ \A w \in Callers :
               (pc[w] # "create" /\ pc'[w] = "create") =>
                   pc[w] = "acquire" /\ pool = <<>>
          /\ \A w \in Callers :
               (held[w] = NoSession /\ held'[w] # NoSession) =>
                   \/ pc[w] = "create"
                   \/ pc[w] = "acquire" /\ pool # <<>>]_vars

\* C39's case: a thread holds the session that another thread's release
\* appended to a pool of older idle sessions.
NewestReleasedSessionAcquired ==
    \E w, v \in Callers :
        /\ w # v
        /\ lastReturn[v] = "pooled"
        /\ pc[w] = "holding"
        /\ fromPool[w]
        /\ held[w] > MaxPoolSize
        /\ Len(pool) >= 2

====
